---- MODULE Spec2Model ----
(***************************************************************************)
(* KaliTrade: the order execution pipeline of                              *)
(* backend/src/services/AdvancedOrderService.ts, the exchange gateway      *)
(* (ExchangeOAuthService.ts) with its access tokens, the market-data       *)
(* collaborator (RealTimeMarketDataService.ts), the portfolio ledger and   *)
(* rebalancer (PortfolioService.ts), the signal engine of                 *)
(* backend/src/routes/real-trading.ts, the update feed of the market-data  *)
(* service and the price cache of demo/real-data-service.js.               *)
(*                                                                         *)
(* One placeOrder call is in flight at a time; it advances one awaited     *)
(* helper at a time, and cancelOrder / updateOrderStatus requests are      *)
(* served between its steps.  Numbers are integers: a quantity is a count  *)
(* of lots, a price a count of ticks.  An absent optional number           *)
(* (undefined / null) is Null.                                             *)
(***************************************************************************)
EXTENDS Integers, Sequences, FiniteSets, TLC

\* ------------------------------------------------------------------ bounds
MaxOrders == 3        \* Order records the ledger may hold
MaxGroups == 2        \* primary orders the ledger may hold
MaxLevels == 2        \* largest dcaConfig.levels a request carries
MaxTokens == 2        \* access tokens one connection is issued over time
MaxPoints == 52       \* longest price series handed to the signal engine
MaxCycles == 2        \* updateMarketData cycles in flight together
MaxCalls == 2         \* getRealTimePrice calls in flight together
MaxTicks == 4         \* steps the clock of the price cache makes

\* ------------------------------------------------------- input domains
Null == 0 - 1

Range(seq) == {seq[k] : k \in 1..Len(seq)}

RECURSIVE SumSeq(_)
SumSeq(seq) == IF seq = <<>> THEN 0 ELSE Head(seq) + SumSeq(Tail(seq))

RECURSIVE Flatten(_)
Flatten(seqs) == IF seqs = <<>> THEN <<>> ELSE Head(seqs) \o Flatten(Tail(seqs))

Users == {"u1", "u2", "u3"}
Symbols == {"BTC/USDT", "ETH/USDT"}
\* the route hands the body's side on as sent: the upper-case spellings and
\* a lower-case one
Sides == {"BUY", "SELL", "buy"}
Types == {"MARKET", "LIMIT", "STOP"}
Quantities == {0 - 6, 0, 6}
Prices == {Null, 0, 100}

StopLossPrices == {95}
TakeProfitPrices == {115}
TrailingDistances == {5}
StepSizes == {10}
UpstreamPrices == {100}
MockChanges == {1}
GatewayOutcomes == {"ok", "error"}
\* the status field of the exchange's answer to an accepted placement
PlacementStatuses == {"NEW", "FILLED"}

TradeStatus == {"PENDING", "FILLED", "CANCELLED", "REJECTED", "PARTIALLY_FILLED"}
Terminal == {"FILLED", "CANCELLED", "REJECTED"}

ErrNoConnection == "No active connection to exchange"
ErrQuantity == "Quantity must be greater than 0"
ErrPrice == "Price is required for limit orders"
ErrSymbol == "Symbol not supported or not found"
ErrBalance == "Failed to get balance from binance"
ErrPlace == "Failed to place order on binance"
ErrCreate == "Failed to place order"
ErrNotFound == "Order not found"
ErrNoToken == "No valid access token for binance"
ErrOrderStatus == "Failed to get order status from binance"
NoError == "none"

\* ------------------------------------------------ portfolio input domains
\* the exchanges a user's connections name, in the order findMany lists them
ExchangeNames == <<"binance", "coinbase">>
Assets == <<"BTC", "SOL">>
FreeBalances == {0, 5, 10}
\* lastPrice of the ticker: a pair without a trade is quoted 0
LastPrices == {0, 100}
UnheldSymbol == "ADA/USDT"
UnheldPrices == {50}
TargetPercents == {Null, 20, 50}

\* numbers with a fractional part are kept in thousandths
Scale == 1000
\* 0 / 0
NaN == 0 - 2

\* formatSymbol: the first quote currency the asset code ends with is cut
\* off, and a bare BTC or ETH ends with itself
FormatSymbol(asset) ==
  CASE asset \in {"USDT", "USD"} -> "USDT/USD"
    [] asset = "BTC" -> "/BTC"
    [] asset = "ETH" -> "/ETH"
    [] OTHER -> asset \o "/USDT"

Balance(asset, free) == [asset |-> asset, free |-> free]

\* what getAccountBalance answers for one exchange of the user: whether the
\* user has an active connection to it, whether the call succeeds, and the
\* balances it returns
Account(connected, outcome, balances) ==
  [connected |-> connected, outcome |-> outcome, balances |-> balances]

BalanceLists ==
  {[k \in 1..Len(Assets) |-> Balance(Assets[k], free[k])] :
     free \in [1..Len(Assets) -> FreeBalances]}

Accounts ==
  {Account(FALSE, "ok", <<>>), Account(TRUE, "error", <<>>)}
  \cup {Account(TRUE, "ok", balances) : balances \in BalanceLists}

HeldSymbols == {FormatSymbol(Assets[k]) : k \in 1..Len(Assets)}
TargetSymbols == <<FormatSymbol(Assets[1]), FormatSymbol(Assets[2]), UnheldSymbol>>

\* the inputs of one call: the accounts, the ticker price of every symbol,
\* targetAllocation (Null for a symbol it does not name), and whether the
\* connection query succeeds
PortfolioInput ==
  [accounts : [Range(ExchangeNames) -> Accounts],
   prices : {held @@ unheld :
               held \in [HeldSymbols -> LastPrices],
               unheld \in [{UnheldSymbol} -> UnheldPrices]},
   targets : [Range(TargetSymbols) -> TargetPercents],
   dbOk : BOOLEAN]

NoTargets == [symbol \in Range(TargetSymbols) |-> Null]

NoInput ==
  [accounts |-> [e \in Range(ExchangeNames) |-> Account(FALSE, "ok", <<>>)],
   prices |-> [symbol \in HeldSymbols \cup {UnheldSymbol} |->
                 IF symbol = UnheldSymbol THEN 50 ELSE 0],
   targets |-> NoTargets,
   dbOk |-> TRUE]

Summary(totalValue, totalCost, positions, exchanges) ==
  [null |-> FALSE, totalValue |-> totalValue, totalCost |-> totalCost,
   positions |-> positions, exchanges |-> exchanges]

\* exchanges: {} is the function on no exchange
NoExchanges == [e \in {} |-> 0]

\* the summary of a user without an active connection
ZeroSummary == Summary(0, 0, <<>>, NoExchanges)

\* the null the outer catch returns
NullSummary == [ZeroSummary EXCEPT !.null = TRUE]

NoCall ==
  [op |-> "none", userId |-> "none", summary |-> NullSummary,
   allocation |-> <<>>, rebalance |-> [success |-> FALSE, orders |-> <<>>]]

\* ---------------------------------------------------- the signal engine
\* routes/real-trading.ts.  A JavaScript value of the indicators: a number
\* (in thousandths), NaN, or undefined
Num(value) == [kind |-> "number", value |-> value]
NotANumber == [kind |-> "NaN", value |-> 0]
Undefined == [kind |-> "undefined", value |-> 0]

IsNumber(x) == x.kind = "number"

\* a > b and a < b: false as soon as one side is NaN or undefined
GreaterThan(a, b) == IsNumber(a) /\ IsNumber(b) /\ a.value > b.value
LessThan(a, b) == IsNumber(a) /\ IsNumber(b) /\ a.value < b.value

\* a - b
Minus(a, b) ==
  IF IsNumber(a) /\ IsNumber(b) THEN Num(a.value - b.value) ELSE NotANumber

\* values.reduce((a, b) => a + b, 0)
RECURSIVE SumValues(_)
SumValues(values) ==
  IF values = <<>> THEN Num(0)
  ELSE LET rest == SumValues(Tail(values))
       IN IF IsNumber(Head(values)) /\ IsNumber(rest)
            THEN Num(Head(values).value + rest.value) ELSE NotANumber

\* arr[arr.length - 1]
Latest(arr) == IF arr = <<>> THEN Undefined ELSE arr[Len(arr)]

\* arr.slice(from, to) with 0-based from and exclusive to
Slice(arr, from, to) ==
  SubSeq(arr, from + 1, IF to < Len(arr) THEN to ELSE Len(arr))

\* the prices as JavaScript numbers
Numbers(prices) == [k \in 1..Len(prices) |-> Num(prices[k] * Scale)]

CalculateSMA(prices, period) ==
  [k \in 1..(IF Len(prices) >= period THEN Len(prices) - period + 1 ELSE 0) |->
     Num((SumSeq(SubSeq(prices, k, k + period - 1)) * Scale) \div period)]

\* 100 - (100 / (1 + avgGain / avgLoss)) from the summed gains and losses of
\* the window: x / 0 is Infinity for x > 0 and NaN for x = 0
RSIValue(gain, loss) ==
  IF loss = 0
    THEN IF gain = 0 THEN NotANumber ELSE Num(100 * Scale)
    ELSE Num(100 * Scale - (100 * Scale * loss) \div (gain + loss))

\* calculateRSI: one value per window of `period` changes; a change of 0
\* counts among the losses
CalculateRSI(prices, period) ==
  [k \in 1..(IF Len(prices) > period THEN Len(prices) - period ELSE 0) |->
     LET change(j) == prices[j + 1] - prices[j]
         gain == SumSeq([j \in 1..period |->
                           IF change(k + j - 1) > 0 THEN change(k + j - 1) ELSE 0])
         loss == SumSeq([j \in 1..period |->
                           IF change(k + j - 1) > 0 THEN 0 ELSE 0 - change(k + j - 1)])
     IN RSIValue(gain, loss)]

\* one step of the EMA loop: value * multiplier + previous * (1 - multiplier)
\* with multiplier = 2 / (period + 1)
EMAStep(value, previous, period) ==
  IF IsNumber(value) /\ IsNumber(previous)
    THEN Num((2 * value.value + (period - 1) * previous.value) \div (period + 1))
    ELSE NotANumber

\* the loop of calculateEMA: i = period + Len(ema) is the 0-based index of the
\* next value read
RECURSIVE EMALoop(_, _, _)
EMALoop(values, period, ema) ==
  IF period + Len(ema) > Len(values) THEN ema
  ELSE EMALoop(values, period,
               Append(ema, EMAStep(values[period + Len(ema)], ema[Len(ema)], period)))

\* calculateEMA: the first element is the sum of the first `period` values
\* (of all of them when there are fewer) over `period`
CalculateEMA(values, period) ==
  LET first == SumValues(Slice(values, 0, period))
      sma == IF IsNumber(first) THEN Num(first.value \div period) ELSE NotANumber
  IN EMALoop(values, period, <<sma>>)

\* calculateMACD: ema12[i] - ema26[i] for every index i of ema12; past the
\* end of ema26 the subtrahend is undefined
CalculateMACD(prices) ==
  LET ema12 == CalculateEMA(Numbers(prices), 12)
      ema26 == CalculateEMA(Numbers(prices), 26)
      macd == [i \in 1..Len(ema12) |->
                 Minus(ema12[i], IF i <= Len(ema26) THEN ema26[i] ELSE Undefined)]
  IN [macd |-> macd, signal |-> CalculateEMA(macd, 9)]

\* a fired sub-signal: its indicator, its reasoning entry, its points
Fired(indicator, entry, points) ==
  [indicator |-> indicator, entry |-> entry, points |-> points]

\* the sub-signals of performTechnicalAnalysis in the order it evaluates them
SubSignals(currentPrice, sma20, sma50, rsi, macd, macdSignal, change24h) ==
  <<IF GreaterThan(currentPrice, sma20)
      THEN <<Fired("SMA20", "Price above SMA20", 1)>>
      ELSE <<Fired("SMA20", "Price below SMA20", 0 - 1)>>,
    IF GreaterThan(currentPrice, sma50)
      THEN <<Fired("SMA50", "Price above SMA50", 1)>>
      ELSE <<Fired("SMA50", "Price below SMA50", 0 - 1)>>,
    IF LessThan(rsi, Num(30 * Scale)) THEN <<Fired("RSI", "RSI oversold", 2)>>
    ELSE IF GreaterThan(rsi, Num(70 * Scale))
      THEN <<Fired("RSI", "RSI overbought", 0 - 2)>>
    ELSE <<>>,
    IF GreaterThan(macd, macdSignal)
      THEN <<Fired("MACD", "MACD bullish", 1)>>
      ELSE <<Fired("MACD", "MACD bearish", 0 - 1)>>,
    IF change24h > 5 THEN <<Fired("24h", "Strong 24h gain", 1)>>
    ELSE IF change24h < 0 - 5 THEN <<Fired("24h", "Strong 24h decline", 0 - 1)>>
    ELSE <<>>>>

\* the recommendation with BUY and SELL one point earlier
Recommendation_Eager(score) ==
  IF score >= 2 THEN "BUY" ELSE IF score <= 0 - 2 THEN "SELL" ELSE "HOLD"

Recommendation(score) ==
  IF score >= 3 THEN "BUY" ELSE IF score <= 0 - 3 THEN "SELL" ELSE "HOLD"

Abs(x) == IF x < 0 THEN 0 - x ELSE x

\* Math.min(Math.abs(score) * 15, 95)
Confidence(score) == IF Abs(score) * 15 < 95 THEN Abs(score) * 15 ELSE 95

\* entries.join(', ')
RECURSIVE Join(_)
Join(entries) ==
  IF entries = <<>> THEN ""
  ELSE IF Len(entries) = 1 THEN entries[1]
  ELSE entries[1] \o ", " \o Join(Tail(entries))

PerformTechnicalAnalysis(prices, currentPrice, change24h) ==
  LET latestSMA20 == Latest(CalculateSMA(prices, 20))
      latestSMA50 == Latest(CalculateSMA(prices, 50))
      latestRSI == Latest(CalculateRSI(prices, 14))
      macd == CalculateMACD(prices)
      latestMACD == Latest(macd.macd)
      latestMACDSignal == Latest(macd.signal)
      fired == Flatten(SubSignals(currentPrice, latestSMA20, latestSMA50, latestRSI,
                                  latestMACD, latestMACDSignal, change24h))
      score == SumSeq([k \in 1..Len(fired) |-> fired[k].points])
  IN [signal |-> Recommendation(score),
      confidence |-> Confidence(score),
      reasoning |-> Join([k \in 1..Len(fired) |-> fired[k].entry]),
      indicators |-> [sma20 |-> latestSMA20, sma50 |-> latestSMA50,
                      rsi |-> latestRSI, macd |-> latestMACD,
                      macdSignal |-> latestMACDSignal]]

\* the price series the engine is run on: a shape, a length, a step
SeriesShapes == {"up", "down", "flat", "zigzag", "spike"}
SeriesLengths == {2, 14, 15, 20, 25, 26, 34, 35, 50, MaxPoints}
SeriesSteps == {1, 3}

\* "spike": a low plateau, a jump, then a drift down over the last 16 points
Series(shape, length, step) ==
  [k \in 1..length |->
     CASE shape = "up" -> 100 + step * k
       [] shape = "down" -> 400 - step * k
       [] shape = "flat" -> 100
       [] shape = "zigzag" -> 100 + (IF k % 2 = 0 THEN step ELSE 0)
       [] shape = "spike" -> IF k <= length - 16 THEN 10
                             ELSE 300 - step * (k - (length - 16))]

\* usd_24h_change, in percent
Changes24h == {0 - 10, 0, 10}
\* the price quoted beside the series, Null where the newest point is taken
QuotedPrices == {Null, 50, 500}

SignalInput ==
  [shape : SeriesShapes, length : SeriesLengths, step : SeriesSteps,
   quoted : QuotedPrices, change24h : Changes24h]

NoSignalInput ==
  [shape |-> "flat", length |-> 2, step |-> 1, quoted |-> Null, change24h |-> 0]

NoAnalysis ==
  [signal |-> "none", confidence |-> 0, reasoning |-> "",
   indicators |-> [sma20 |-> Undefined, sma50 |-> Undefined, rsi |-> Undefined,
                   macd |-> Undefined, macdSignal |-> Undefined]]

\* ------------------------------------------------------------- requests
Request(userId, symbol, side, type, quantity, price) ==
  [userId |-> userId, symbol |-> symbol, side |-> side, type |-> type,
   quantity |-> quantity, price |-> price]

\* every request over the input domains
OrderRequest ==
  [userId : Users, symbol : Symbols, side : Sides, type : Types,
   quantity : Quantities, price : Prices]

\* the requests that fill the ledger when orders are also cancelled and
\* reconciled: two users on one symbol, and one request validation rejects
LedgerRequest ==
  {Request("u1", "BTC/USDT", "BUY", "MARKET", 6, Null),
   Request("u2", "BTC/USDT", "SELL", "LIMIT", 6, 100),
   Request("u1", "BTC/USDT", "BUY", "LIMIT", 0, Null)}

\* a disabled ladder is written with levels = 1
AdvancedOrderConfig ==
  {c \in [stopLoss : [enabled : BOOLEAN, price : StopLossPrices],
          takeProfit : [enabled : BOOLEAN, price : TakeProfitPrices],
          trailingStop : [enabled : BOOLEAN, distance : TrailingDistances],
          dcaConfig : [enabled : BOOLEAN, levels : 1..MaxLevels,
                       stepSize : StepSizes, stepPercentage : {Null}]] :
     ~c.dcaConfig.enabled => c.dcaConfig.levels = 1}

\* the configs of LedgerRequest: no leg, a stop-loss with or without a
\* take-profit, a trailing stop alone, a full ladder alone
LedgerConfig ==
  {c \in AdvancedOrderConfig :
     /\ c.takeProfit.enabled => c.stopLoss.enabled
     /\ c.trailingStop.enabled => ~c.stopLoss.enabled /\ ~c.dcaConfig.enabled
     /\ c.dcaConfig.enabled => ~c.stopLoss.enabled /\ c.dcaConfig.levels = MaxLevels}

\* records one placeOrder call creates beside the primary when nothing fails
LegCount(config) ==
  (IF config.stopLoss.enabled THEN 1 ELSE 0)
  + (IF config.takeProfit.enabled THEN 1 ELSE 0)
  + (IF config.trailingStop.enabled THEN 1 ELSE 0)
  + (IF config.dcaConfig.enabled THEN config.dcaConfig.levels ELSE 0)

Leg(type, level) == [type |-> type, level |-> level]
PrimaryLeg == Leg("primary", 0)

\* String.prototype.toUpperCase on the side strings
ToUpperCase(side) ==
  CASE side = "buy" -> "BUY"
    [] side = "sell" -> "SELL"
    [] OTHER -> side

\* side === 'BUY' ? 'SELL' : 'BUY'
OppositeSide(side) == IF side = "BUY" THEN "SELL" ELSE "BUY"

\* ------------------------------------------------------ market data
\* basePrices[symbol] || 100: no symbol of Symbols is in the table
BasePrice == 100

GenerateMockMarketData(symbol, change) ==
  [symbol |-> symbol, price |-> BasePrice + change]

\* upstream = Null: the ticker request failed
FetchMarketData(symbol, upstream, change) ==
  IF upstream # Null THEN [symbol |-> symbol, price |-> upstream]
  ELSE GenerateMockMarketData(symbol, change)

GetLatestMarketData(symbol, upstream, change) ==
  <<FetchMarketData(symbol, upstream, change)>>

\* ------------------------------------------------------------------ state
VARIABLES
  connections,     \* userId -> isActive of the user's ExchangeConnection
  orders,          \* the Order table, in creation order; the id is the index
  placement,       \* history: per record, the id of the primary of its placeOrder call
  pc,              \* position of the placeOrder call in flight
  req,             \* its orderRequest
  cfg,             \* its config
  mainId,          \* id of dbOrder, 0 before it exists
  advanced,        \* advancedOrders: ids of the derived records, in order
  attempted,       \* history: the legs whose helper was entered
  gwCalls,         \* history: the legs handed to the gateway's placeOrder
  balanceCalls,    \* history: getAccountBalance calls of this placeOrder
  dcaNext,         \* loop variable i of placeDCAOrders
  dcaPrice,        \* currentPrice of placeDCAOrders
  result,          \* OrderExecutionResult of the last finished placeOrder
  cancelPc,        \* position of the cancelOrder request in flight
  cancelCur,       \* order the innermost cancelOrder call works on
  cancelResult,    \* what the last returned cancelOrder returned
  tokens,          \* userId -> the token fields of the user's ExchangeConnection
  lastOp,          \* history: the last gateway operation and what it did
  pfInput,         \* what the PortfolioService call in flight reads
  pfResult,        \* what the PortfolioService call in flight returns
  sigInput,        \* the series the signal engine call in flight is run on
  analysis,        \* what performTechnicalAnalysis returned to it
  mainOrder,       \* the gateway's answer to the main placement, until the next step
  isRunning,       \* RealTimeMarketDataService.isRunning
  updateInterval,  \* whether the 30 s interval timer is set
  cycles,          \* the updateMarketData cycles in flight: symbol and position
  feedEvent,       \* history: the last store or broadcast, and isRunning at that time
  now,             \* Date.now() of the browser data service, in ms
  cache,           \* its cache entry under the price key of the symbol
  calls,           \* position of each getRealTimePrice call
  served           \* history: what the last returned getRealTimePrice returned

placeVars == <<pc, req, cfg, mainId, mainOrder, advanced, attempted, gwCalls,
               balanceCalls, dcaNext, dcaPrice, result>>
cancelVars == <<cancelPc, cancelCur, cancelResult>>
gatewayVars == <<tokens, lastOp>>
portfolioVars == <<pfInput, pfResult>>
signalVars == <<sigInput, analysis>>
feedVars == <<isRunning, updateInterval, cycles, feedEvent>>
cacheVars == <<now, cache, calls, served>>
dataVars == <<feedVars, cacheVars>>
vars == <<connections, orders, placement, placeVars, cancelVars, gatewayVars,
          portfolioVars, signalVars, dataVars>>

NoRequest == Request("u1", "BTC/USDT", "BUY", "MARKET", 0, Null)
NoConfig ==
  CHOOSE c \in AdvancedOrderConfig :
    /\ ~c.stopLoss.enabled /\ ~c.takeProfit.enabled
    /\ ~c.trailingStop.enabled /\ ~c.dcaConfig.enabled
Return(success, error) == [success |-> success, error |-> error]
NoReturn == Return(FALSE, NoError)
NoResult == [success |-> FALSE, orderId |-> 0, error |-> NoError, orders |-> <<>>]
\* response.data of the placement, of which only the status is modelled
Response(status) == [status |-> status]
NoMainOrder == Response("none")

\* an updateMarketData cycle: the index of the symbol it is at and the await
\* it is suspended in
Cycle(symbol, at) == [symbol |-> symbol, at |-> at]
NoCycle == Cycle(0, "none")
\* a store or broadcast of a symbol's market data
FeedEvent(kind, symbol, running) ==
  [kind |-> kind, symbol |-> symbol, isRunning |-> running]
NoFeedEvent == FeedEvent("none", 0, FALSE)

\* priceData of getRealTimePrice: where the price came from and when
PriceData(source, timestamp) == [source |-> source, timestamp |-> timestamp]
\* a cache entry { data, timestamp }; the cache without the key is NoEntry
Entry(data, timestamp) == [present |-> TRUE, data |-> data, timestamp |-> timestamp]
NoEntry == [present |-> FALSE, data |-> PriceData("none", 0), timestamp |-> 0]
\* a returned price: its source, whether it was the cached object, and the
\* age of its cache entry at the return
Served(source, fromCache, age) ==
  [source |-> source, fromCache |-> fromCache, age |-> age]
NotServed == Served("none", FALSE, 0)

\* accessToken null
NoToken == 0

\* the token fields of an ExchangeConnection: the access token (the n-th one
\* issued to the connection), whether expiresAt has passed, and whether a
\* refresh token is stored
Connection(accessToken, expired, refreshToken) ==
  [accessToken |-> accessToken, expired |-> expired, refreshToken |-> refreshToken]

GatewayOps == {"placeOrder", "getOrderStatus", "getAccountBalance"}

NoOp ==
  [op |-> "none", userId |-> "none", connection |-> "none", expired |-> FALSE,
   refreshes |-> 0, apiCalls |-> 0, accessToken |-> NoToken, error |-> NoError]

Init ==
  /\ connections = [u \in Users |-> u # "u3"]
  /\ orders = <<>>
  /\ placement = <<>>
  /\ pc = "idle"
  /\ req = NoRequest
  /\ cfg = NoConfig
  /\ mainId = 0
  /\ advanced = <<>>
  /\ attempted = <<>>
  /\ gwCalls = <<>>
  /\ balanceCalls = 0
  /\ dcaNext = 0
  /\ dcaPrice = Null
  /\ result = NoResult
  /\ cancelPc = "idle"
  /\ cancelCur = 0
  /\ cancelResult = NoReturn
  /\ tokens = [u \in Users |-> Connection(1, FALSE, u # "u2")]
  /\ lastOp = NoOp
  /\ pfInput = NoInput
  /\ pfResult = NoCall
  /\ sigInput = NoSignalInput
  /\ analysis = NoAnalysis
  /\ mainOrder = NoMainOrder
  /\ isRunning = FALSE
  /\ updateInterval = FALSE
  /\ cycles = [c \in 1..MaxCycles |-> NoCycle]
  /\ feedEvent = NoFeedEvent
  /\ now = 0
  /\ cache = NoEntry
  /\ calls = [c \in 1..MaxCalls |-> "idle"]
  /\ served = NotServed

\* ------------------------------------------------------------ helpers
Failure(error) == [success |-> FALSE, orderId |-> 0, error |-> error, orders |-> <<>>]

\* the part of the config JSON blob the code reads back: its type tag and
\* the DCA level; a primary's blob is the AdvancedOrderConfig, without a tag
ConfigTag(type, level, totalLevels) ==
  [type |-> type, level |-> level, totalLevels |-> totalLevels]

\* exchangeData, which no code reads back, is left out of the record; the
\* side is stored upper-cased
NewOrder(userId, symbol, side, type, quantity, price, exchangeOrderId, config) ==
  [userId |-> userId, exchangeName |-> "binance",
   exchangeOrderId |-> exchangeOrderId, symbol |-> symbol,
   side |-> ToUpperCase(side),
   type |-> type, quantity |-> quantity, price |-> price, status |-> "PENDING",
   filledQuantity |-> 0, averagePrice |-> Null, config |-> config]

\* `trailing_${Date.now()}`: not an id the exchange issued
TrailingExchangeId == 0

\* exchangeOrder.id: the id the exchange issues for the order it accepted,
\* fresh among the stored ones
ExchangeOrderId == Len(orders) + 1

\* -------------------------------------------------------- validateOrder
\* validateOrder with the price check moved before the quantity check
ValidateOrder_PriceFirst(orderRequest, marketData, balance) ==
  IF ~connections[orderRequest.userId]
    THEN [valid |-> FALSE, error |-> ErrNoConnection, balanceCalls |-> 0]
  ELSE IF /\ orderRequest.type \in {"LIMIT", "STOP_LIMIT"}
          /\ (orderRequest.price = Null \/ orderRequest.price <= 0)
    THEN [valid |-> FALSE, error |-> ErrPrice, balanceCalls |-> 0]
  ELSE IF orderRequest.quantity <= 0
    THEN [valid |-> FALSE, error |-> ErrQuantity, balanceCalls |-> 0]
  ELSE IF balance # "ok"
    THEN [valid |-> FALSE, error |-> ErrBalance, balanceCalls |-> 1]
  ELSE [valid |-> TRUE, error |-> NoError, balanceCalls |-> 1]

\* validateOrder with the connection lookup moved after the quantity check
ValidateOrder_QuantityFirst(orderRequest, marketData, balance) ==
  IF orderRequest.quantity <= 0
    THEN [valid |-> FALSE, error |-> ErrQuantity, balanceCalls |-> 0]
  ELSE IF ~connections[orderRequest.userId]
    THEN [valid |-> FALSE, error |-> ErrNoConnection, balanceCalls |-> 0]
  ELSE IF /\ orderRequest.type \in {"LIMIT", "STOP_LIMIT"}
          /\ (orderRequest.price = Null \/ orderRequest.price <= 0)
    THEN [valid |-> FALSE, error |-> ErrPrice, balanceCalls |-> 0]
  ELSE IF balance # "ok"
    THEN [valid |-> FALSE, error |-> ErrBalance, balanceCalls |-> 1]
  ELSE [valid |-> TRUE, error |-> NoError, balanceCalls |-> 1]

ValidateOrder(orderRequest, marketData, balance) ==
  IF ~connections[orderRequest.userId]
    THEN [valid |-> FALSE, error |-> ErrNoConnection, balanceCalls |-> 0]
  ELSE IF orderRequest.quantity <= 0
    THEN [valid |-> FALSE, error |-> ErrQuantity, balanceCalls |-> 0]
  ELSE IF /\ orderRequest.type \in {"LIMIT", "STOP_LIMIT"}
          /\ (orderRequest.price = Null \/ orderRequest.price <= 0)
    THEN [valid |-> FALSE, error |-> ErrPrice, balanceCalls |-> 0]
  ELSE IF Len(marketData) = 0
    THEN [valid |-> FALSE, error |-> ErrSymbol, balanceCalls |-> 0]
  ELSE IF balance # "ok"
    THEN [valid |-> FALSE, error |-> ErrBalance, balanceCalls |-> 1]
  ELSE [valid |-> TRUE, error |-> NoError, balanceCalls |-> 1]

\* ------------------------------------------------------------ placeOrder
Stages == <<"stopLoss", "takeProfit", "trailingStop", "dca">>

Enabled(config, stage) ==
  CASE stage = "stopLoss" -> config.stopLoss.enabled
    [] stage = "takeProfit" -> config.takeProfit.enabled
    [] stage = "trailingStop" -> config.trailingStop.enabled
    [] stage = "dca" -> config.dcaConfig.enabled

\* placeAdvancedOrders: the helper of the next enabled leg after the
\* first `done` stages, or the return
NextStage(config, done) ==
  LET later == {k \in (done + 1)..Len(Stages) : Enabled(config, Stages[k])}
  IN IF later = {} THEN "return"
     ELSE Stages[CHOOSE k \in later : \A j \in later : k <= j]

\* the call moves on to `stage`; at "return" placeOrder returns its result
Continue(stage, dbOrderId, advancedOrders) ==
  IF stage = "return"
    THEN /\ pc' = "done"
         /\ result' = [success |-> TRUE, orderId |-> dbOrderId, error |-> NoError,
                       orders |-> <<dbOrderId>> \o advancedOrders]
    ELSE /\ pc' = stage
         /\ UNCHANGED result

\* entry of placeOrder up to the return of validateOrder
PlaceOrder(orderRequest, config, upstream, change, balance) ==
  /\ pc = "idle"
  /\ LET validation ==
           ValidateOrder(orderRequest,
                         GetLatestMarketData(orderRequest.symbol, upstream, change),
                         balance)
     IN /\ balanceCalls' = validation.balanceCalls
        /\ IF validation.valid
             THEN pc' = "main" /\ result' = NoResult
             ELSE pc' = "done" /\ result' = Failure(validation.error)
  /\ req' = orderRequest
  /\ cfg' = config
  /\ mainId' = 0
  /\ mainOrder' = NoMainOrder
  /\ advanced' = <<>>
  /\ attempted' = <<>>
  /\ gwCalls' = <<>>
  /\ dcaNext' = 0
  /\ dcaPrice' = Null
  /\ UNCHANGED <<dataVars, signalVars, portfolioVars, gatewayVars, connections, orders, placement, cancelVars>>

\* placeOrder with the failure of the main order swallowed the way the
\* helpers of the derived legs swallow theirs: the legs are placed all the same
PlaceMainOrder_Swallow(upstream, change, outcome, dbOk) ==
  /\ pc = "main"
  /\ gwCalls' = Append(gwCalls, PrimaryLeg)
  /\ IF outcome = "ok"
       THEN \E status \in PlacementStatuses : mainOrder' = Response(status)
       ELSE UNCHANGED mainOrder
  /\ IF outcome = "ok" /\ dbOk
       THEN /\ orders' = Append(orders,
                   NewOrder(req.userId, req.symbol, req.side, req.type,
                            req.quantity, req.price, ExchangeOrderId,
                            ConfigTag("none", 0, 0)))
            /\ placement' = Append(placement, Len(orders) + 1)
            /\ mainId' = Len(orders) + 1
            /\ Continue(NextStage(cfg, 0), Len(orders) + 1, <<>>)
       ELSE /\ Continue(NextStage(cfg, 0), mainId, <<>>)
            /\ UNCHANGED <<orders, placement, mainId>>
  /\ UNCHANGED <<dataVars, signalVars, portfolioVars, gatewayVars, connections, req, cfg, advanced, attempted, balanceCalls,
                 dcaNext, dcaPrice, cancelVars>>

\* the market price lookup, the gateway placement of the main order and
\* prisma.order.create; a throw of either ends placeOrder in its catch
PlaceMainOrder(upstream, change, outcome, dbOk) ==
  /\ pc = "main"
  /\ LET marketData == GetLatestMarketData(req.symbol, upstream, change)
         executionPrice ==
           IF req.type = "MARKET" /\ Len(marketData) > 0
             THEN marketData[1].price ELSE req.price
     IN /\ gwCalls' = Append(gwCalls, PrimaryLeg)
        /\ IF outcome # "ok"
             THEN /\ result' = Failure(ErrPlace)
                  /\ pc' = "done"
                  /\ UNCHANGED <<orders, placement, mainId, mainOrder>>
             ELSE /\ \E status \in PlacementStatuses :
                       mainOrder' = Response(status)
                  /\ IF dbOk
                       THEN /\ orders' = Append(orders,
                                   NewOrder(req.userId, req.symbol, req.side,
                                            req.type, req.quantity, executionPrice,
                                            ExchangeOrderId,
                                            ConfigTag("none", 0, 0)))
                            /\ placement' = Append(placement, Len(orders) + 1)
                            /\ mainId' = Len(orders) + 1
                            /\ Continue(NextStage(cfg, 0), Len(orders) + 1, <<>>)
                       ELSE /\ result' = Failure(ErrCreate)
                            /\ pc' = "done"
                            /\ UNCHANGED <<orders, placement, mainId>>
  /\ UNCHANGED <<dataVars, signalVars, portfolioVars, gatewayVars, connections, req, cfg, advanced, attempted, balanceCalls,
                 dcaNext, dcaPrice, cancelVars>>

\* one derived order handed to the gateway and stored; a throw of either is
\* caught by the helper, which then yields null
PlaceDerived(leg, side, type, quantity, price, tag, outcome, dbOk) ==
  /\ attempted' = Append(attempted, leg)
  /\ gwCalls' = Append(gwCalls, leg)
  /\ IF outcome # "ok"
       THEN UNCHANGED <<orders, placement, advanced>>
       ELSE IF dbOk
              THEN /\ orders' = Append(orders,
                          NewOrder(req.userId, req.symbol, side, type, quantity,
                                   price, ExchangeOrderId, tag))
                   /\ placement' = Append(placement, mainId)
                   /\ advanced' = Append(advanced, Len(orders) + 1)
              ELSE UNCHANGED <<orders, placement, advanced>>

PlaceStopLossOrder(outcome, dbOk) ==
  /\ pc = "stopLoss"
  /\ PlaceDerived(Leg("stop_loss", 0), OppositeSide(req.side), "STOP_LIMIT",
                  req.quantity, cfg.stopLoss.price, ConfigTag("stop_loss", 0, 0),
                  outcome, dbOk)
  /\ Continue(NextStage(cfg, 1), mainId, advanced')
  /\ mainOrder' = NoMainOrder
  /\ UNCHANGED <<dataVars, signalVars, portfolioVars, gatewayVars, connections, req, cfg, mainId, balanceCalls, dcaNext, dcaPrice,
                 cancelVars>>

PlaceTakeProfitOrder(outcome, dbOk) ==
  /\ pc = "takeProfit"
  /\ PlaceDerived(Leg("take_profit", 0), OppositeSide(req.side), "LIMIT",
                  req.quantity, cfg.takeProfit.price, ConfigTag("take_profit", 0, 0),
                  outcome, dbOk)
  /\ Continue(NextStage(cfg, 2), mainId, advanced')
  /\ mainOrder' = NoMainOrder
  /\ UNCHANGED <<dataVars, signalVars, portfolioVars, gatewayVars, connections, req, cfg, mainId, balanceCalls, dcaNext, dcaPrice,
                 cancelVars>>

\* no gateway call: the record alone is created, with price 0
PlaceTrailingStopOrder(dbOk) ==
  /\ pc = "trailingStop"
  /\ attempted' = Append(attempted, Leg("trailing_stop", 0))
  /\ IF dbOk
       THEN /\ orders' = Append(orders,
                   NewOrder(req.userId, req.symbol, OppositeSide(req.side), "STOP",
                            req.quantity, 0, TrailingExchangeId,
                            ConfigTag("trailing_stop", 0, 0)))
            /\ placement' = Append(placement, mainId)
            /\ advanced' = Append(advanced, Len(orders) + 1)
       ELSE UNCHANGED <<orders, placement, advanced>>
  /\ Continue(NextStage(cfg, 3), mainId, advanced')
  /\ mainOrder' = NoMainOrder
  /\ UNCHANGED <<dataVars, signalVars, portfolioVars, gatewayVars, connections, req, cfg, mainId, gwCalls,
                 balanceCalls, dcaNext, dcaPrice, cancelVars>>

\* entry of placeDCAOrders: the market price the ladder is computed from
PlaceDCAOrders(upstream, change) ==
  /\ pc = "dca"
  /\ LET marketData == GetLatestMarketData(req.symbol, upstream, change)
     IN IF Len(marketData) = 0 \/ cfg.dcaConfig.levels < 1
          THEN /\ Continue("return", mainId, advanced)
               /\ UNCHANGED <<dcaNext, dcaPrice>>
          ELSE /\ dcaPrice' = marketData[1].price
               /\ dcaNext' = 1
               /\ Continue("dcaLeg", mainId, advanced)
  /\ mainOrder' = NoMainOrder
  /\ UNCHANGED <<dataVars, signalVars, portfolioVars, gatewayVars, connections, orders, placement, req, cfg, mainId,
                 advanced, attempted, gwCalls, balanceCalls, cancelVars>>

DCAOrderPrice(side, currentPrice, dcaConfig, i) ==
  LET priceStep ==
        IF dcaConfig.stepPercentage # Null /\ dcaConfig.stepPercentage # 0
          THEN (currentPrice * dcaConfig.stepPercentage * i) \div 100
          ELSE dcaConfig.stepSize * i
  IN IF side = "BUY" THEN currentPrice - priceStep ELSE currentPrice + priceStep

\* the loop of placeDCAOrders with a failed iteration run again
DCAAfter_Retry(levels, i, placed) ==
  IF ~placed \/ i + 1 <= levels THEN "dcaLeg" ELSE "return"

\* after iteration i of the loop of placeDCAOrders: a throw leaves the loop
DCAAfter(levels, i, placed) ==
  IF placed /\ i + 1 <= levels THEN "dcaLeg" ELSE "return"

\* one iteration of the loop of placeDCAOrders
PlaceDCALeg(outcome, dbOk) ==
  /\ pc = "dcaLeg"
  /\ PlaceDerived(Leg("dca", dcaNext), req.side, "LIMIT",
                  req.quantity \div cfg.dcaConfig.levels,
                  DCAOrderPrice(req.side, dcaPrice, cfg.dcaConfig, dcaNext),
                  ConfigTag("dca", dcaNext, cfg.dcaConfig.levels), outcome, dbOk)
  /\ dcaNext' = IF outcome = "ok" /\ dbOk THEN dcaNext + 1 ELSE dcaNext
  /\ Continue(DCAAfter(cfg.dcaConfig.levels, dcaNext, outcome = "ok" /\ dbOk),
              mainId, advanced')
  /\ mainOrder' = NoMainOrder
  /\ UNCHANGED <<dataVars, signalVars, portfolioVars, gatewayVars, connections, req, cfg, mainId, balanceCalls, dcaPrice, cancelVars>>

\* the result is handed to the caller and the frame of the call is gone
PlaceOrderReturn ==
  /\ pc = "done"
  /\ pc' = "idle"
  /\ req' = NoRequest
  /\ cfg' = NoConfig
  /\ mainId' = 0
  /\ mainOrder' = NoMainOrder
  /\ advanced' = <<>>
  /\ attempted' = <<>>
  /\ gwCalls' = <<>>
  /\ balanceCalls' = 0
  /\ dcaNext' = 0
  /\ dcaPrice' = Null
  /\ result' = NoResult
  /\ UNCHANGED <<dataVars, signalVars, portfolioVars, gatewayVars, connections, orders, placement, cancelVars>>

\* ----------------------------------------------------------- cancelOrder
\* findFirst looking the order up by its id alone
FindOrder_AnyUser(userId, orderId) == orderId \in 1..Len(orders)

\* prisma.order.findFirst({ where: { id: orderId, userId } })
FindOrder(userId, orderId) ==
  orderId \in 1..Len(orders) /\ orders[orderId].userId = userId

\* prisma.order.findMany of cancelOrder: same user, same symbol, same
\* config.type
RelatedOrders(order) ==
  {i \in 1..Len(orders) :
     /\ orders[i].userId = order.userId
     /\ orders[i].symbol = order.symbol
     /\ orders[i].config.type = order.config.type}

SetCancelled(orderId) == [orders EXCEPT ![orderId].status = "CANCELLED"]

\* does cancelOrder look for related orders: config.type is set
HasRelated(order) == order.config.type # "none"

\* a cancelOrder request, up to its return or to its first nested call
CancelOrder(userId, orderId) ==
  /\ cancelPc = "idle"
  /\ IF ~FindOrder(userId, orderId)
       THEN /\ cancelResult' = Return(FALSE, ErrNotFound)
            /\ UNCHANGED <<orders, cancelPc, cancelCur>>
       ELSE /\ orders' = SetCancelled(orderId)
            /\ IF HasRelated(orders[orderId])
                 THEN /\ cancelPc' = "related"
                      /\ cancelCur' = orderId
                      /\ cancelResult' = NoReturn
                 ELSE /\ cancelResult' = Return(TRUE, NoError)
                      /\ UNCHANGED <<cancelPc, cancelCur>>
  /\ UNCHANGED <<dataVars, signalVars, portfolioVars, gatewayVars, connections, placement, placeVars>>

\* the nested cancelOrder(userId, relatedOrder.id) for the first related
\* order; findMany has no orderBy, so any related order may come first.  The
\* order being cancelled is itself among its related orders, so the nested
\* call nests again and the outer loop never reaches its second element.
CancelRelatedOrder(relatedId) ==
  /\ cancelPc = "related"
  /\ relatedId \in RelatedOrders(orders[cancelCur])
  /\ orders' = SetCancelled(relatedId)
  /\ cancelCur' = relatedId
  /\ UNCHANGED <<dataVars, signalVars, portfolioVars, gatewayVars, connections, placement, placeVars, cancelPc,
                 cancelResult>>

\* ----------------------------------------------------- updateOrderStatus
\* what the exchange may answer for an order: the status, and the fill
\* fields when the answer carries them
ExchangeResponses(order) ==
  {[status |-> "NEW", filledQuantity |-> Null, averagePrice |-> Null],
   [status |-> "FILLED", filledQuantity |-> order.quantity,
    averagePrice |-> BasePrice]}

\* x || fallback for a number
OrElse(x, fallback) == IF x = Null \/ x = 0 THEN fallback ELSE x

\* prisma.order.update adding the reported fill to the stored one
Reconciled_Accumulate(order, exchangeStatus) ==
  [order EXCEPT !.status = exchangeStatus.status,
                !.filledQuantity = @ + OrElse(exchangeStatus.filledQuantity, 0),
                !.averagePrice = OrElse(exchangeStatus.averagePrice, Null)]

\* the record written by prisma.order.update
Reconciled(order, exchangeStatus) ==
  [order EXCEPT !.status = exchangeStatus.status,
                !.filledQuantity = OrElse(exchangeStatus.filledQuantity, 0),
                !.averagePrice = OrElse(exchangeStatus.averagePrice, Null)]

\* the Order table after updateOrderStatus found the order: a failing
\* gateway call, an order the exchange does not know (a trailing stop's local
\* id) and a status outside the TradeStatus enum all end in the catch, which
\* writes nothing
UpdatedOrders(table, orderId, outcome, exchangeStatus) ==
  IF /\ outcome = "ok"
     /\ table[orderId].exchangeOrderId # TrailingExchangeId
     /\ exchangeStatus.status \in TradeStatus
    THEN [table EXCEPT ![orderId] = Reconciled(@, exchangeStatus)]
    ELSE table

UpdateOrderStatus(userId, orderId, outcome, exchangeStatus) ==
  /\ FindOrder(userId, orderId)
  /\ exchangeStatus \in ExchangeResponses(orders[orderId])
  /\ orders' = UpdatedOrders(orders, orderId, outcome, exchangeStatus)
  /\ UNCHANGED <<dataVars, signalVars, portfolioVars, gatewayVars, connections, placement, placeVars, cancelVars>>

\* ------------------------------------------------- the exchange gateway
\* refreshAccessToken: without a stored refresh token it throws before the
\* exchange is asked; a refused refresh throws; an accepted one stores the
\* new access token and a future expiresAt
RefreshAccessToken(connection, outcome) ==
  IF ~connection.refreshToken \/ outcome # "ok"
    THEN [ok |-> FALSE, connection |-> connection]
    ELSE [ok |-> TRUE,
          connection |-> [connection EXCEPT !.accessToken = @ + 1,
                                            !.expired = FALSE]]

\* getValidAccessToken with the stored token handed out when the refresh
\* fails
GetValidAccessToken_StaleOnFailure(connection, outcome) ==
  IF connection.expired
    THEN LET refreshed == RefreshAccessToken(connection, outcome)
         IN IF refreshed.ok
              THEN [accessToken |-> refreshed.connection.accessToken,
                    refreshes |-> 1, connection |-> refreshed.connection]
              ELSE [accessToken |-> connection.accessToken, refreshes |-> 1,
                    connection |-> connection]
    ELSE [accessToken |-> connection.accessToken, refreshes |-> 0,
          connection |-> connection]

\* getValidAccessToken for the connection findFirst returned: the token to
\* use (NoToken for null), the refreshAccessToken calls made, and the
\* connection as it is stored afterwards
GetValidAccessToken(connection, outcome) ==
  IF connection.expired
    THEN LET refreshed == RefreshAccessToken(connection, outcome)
         IN IF refreshed.ok
              THEN [accessToken |-> refreshed.connection.accessToken,
                    refreshes |-> 1, connection |-> refreshed.connection]
              ELSE [accessToken |-> NoToken, refreshes |-> 1,
                    connection |-> connection]
    ELSE [accessToken |-> connection.accessToken, refreshes |-> 0,
          connection |-> connection]

\* the failure a gateway operation wraps a failed exchange API call in
ApiError(op) ==
  CASE op = "placeOrder" -> ErrPlace
    [] op = "getOrderStatus" -> ErrOrderStatus
    [] op = "getAccountBalance" -> ErrBalance

\* the connections getValidAccessToken(exchange) may be handed by findFirst:
\* the active ones of the exchange, of any user
ActiveConnections == {u \in Users : connections[u]}

\* placeOrder, getOrderStatus or getAccountBalance of the gateway on behalf
\* of userId: the token lookup, then the exchange API call
GatewayOperation(op, userId, owner, refreshOutcome, apiOutcome) ==
  /\ owner \in ActiveConnections
  /\ LET valid == GetValidAccessToken(tokens[owner], refreshOutcome)
     IN /\ tokens' = [tokens EXCEPT ![owner] = valid.connection]
        /\ lastOp' =
             [op |-> op, userId |-> userId, connection |-> owner,
              expired |-> tokens[owner].expired,
              refreshes |-> valid.refreshes,
              apiCalls |-> IF valid.accessToken = NoToken THEN 0 ELSE 1,
              accessToken |-> valid.accessToken,
              error |-> IF valid.accessToken = NoToken THEN ErrNoToken
                        ELSE IF apiOutcome # "ok" THEN ApiError(op)
                        ELSE NoError]
  /\ UNCHANGED <<dataVars, signalVars, portfolioVars, connections, orders, placement, placeVars, cancelVars>>

\* a gateway operation while the exchange has no active connection
GatewayOperationUnconnected(op, userId) ==
  /\ ActiveConnections = {}
  /\ lastOp' = [NoOp EXCEPT !.op = op, !.userId = userId, !.error = ErrNoToken]
  /\ UNCHANGED <<dataVars, signalVars, portfolioVars, tokens, connections, orders, placement, placeVars, cancelVars>>

\* the operation returns or throws to its caller
GatewayReturn ==
  /\ lastOp.op # "none"
  /\ lastOp' = NoOp
  /\ UNCHANGED <<dataVars, signalVars, portfolioVars, tokens, connections, orders, placement,
                 placeVars, cancelVars>>

\* the clock passes expiresAt of the user's connection
TokenExpires(userId) ==
  /\ ~tokens[userId].expired
  /\ tokens[userId].accessToken < MaxTokens
  /\ tokens' = [tokens EXCEPT ![userId].expired = TRUE]
  /\ UNCHANGED <<dataVars, signalVars, portfolioVars, lastOp, connections, orders, placement, placeVars, cancelVars>>

\* storeTokens at the end of the OAuth flow: the upsert of the connection
StoreTokens(userId, refreshToken) ==
  /\ tokens[userId].accessToken < MaxTokens
  /\ tokens' = [tokens EXCEPT
                  ![userId] = Connection(@.accessToken + 1, FALSE, refreshToken)]
  /\ connections' = [connections EXCEPT ![userId] = TRUE]
  /\ UNCHANGED <<dataVars, signalVars, portfolioVars, lastOp, orders, placement, placeVars, cancelVars>>

DisconnectExchange(userId) ==
  /\ connections[userId]
  /\ connections' = [connections EXCEPT ![userId] = FALSE]
  /\ UNCHANGED <<dataVars, signalVars, portfolioVars, gatewayVars, orders, placement, placeVars, cancelVars>>

\* ---------------------------------------------------- PortfolioService
\* calculateAveragePrice: the filled BUY orders of the user for the symbol
\* on the exchange
CalculateAveragePrice(userId, exchangeName, symbol) ==
  LET buyOrders ==
        SelectSeq(orders,
                  LAMBDA o : /\ o.userId = userId /\ o.exchangeName = exchangeName
                             /\ o.symbol = symbol /\ o.side = "BUY"
                             /\ o.status = "FILLED")
      filled(o) == OrElse(o.filledQuantity, o.quantity)
      totalQuantity == SumSeq([k \in 1..Len(buyOrders) |-> filled(buyOrders[k])])
      totalCost ==
        SumSeq([k \in 1..Len(buyOrders) |->
                  filled(buyOrders[k])
                  * OrElse(buyOrders[k].averagePrice, OrElse(buyOrders[k].price, 0))])
  IN IF Len(buyOrders) = 0 \/ totalQuantity <= 0 THEN 0
     ELSE totalCost \div totalQuantity

\* processExchangeBalances: one position per balance with quantity > 0
ProcessExchangeBalances(exchangeName, balances, userId, prices) ==
  LET held == SelectSeq(balances, LAMBDA b : b.free > 0)
  IN [k \in 1..Len(held) |->
        LET symbol == FormatSymbol(held[k].asset)
        IN [symbol |-> symbol,
            quantity |-> held[k].free,
            averagePrice |-> CalculateAveragePrice(userId, exchangeName, symbol),
            currentPrice |-> prices[symbol],
            marketValue |-> held[k].free * prices[symbol],
            exchangeName |-> exchangeName]]

\* getPortfolioSummary with a failing balance call left to the outer catch
GetPortfolioSummary_Abort(userId, input) ==
  LET connections_ ==
        SelectSeq(ExchangeNames, LAMBDA e : input.accounts[e].connected)
      exchangePositions(e) ==
        ProcessExchangeBalances(e, input.accounts[e].balances, userId, input.prices)
      allPositions ==
        Flatten([k \in 1..Len(connections_) |-> exchangePositions(connections_[k])])
  IN IF ~input.dbOk THEN NullSummary
     ELSE IF Len(connections_) = 0 THEN ZeroSummary
     ELSE IF \E e \in Range(connections_) : input.accounts[e].outcome # "ok"
       THEN NullSummary
     ELSE Summary(SumSeq([k \in 1..Len(allPositions) |-> allPositions[k].marketValue]),
                  SumSeq([k \in 1..Len(allPositions) |->
                            allPositions[k].quantity * allPositions[k].averagePrice]),
                  allPositions,
                  [e \in Range(connections_) |->
                     SumSeq([k \in 1..Len(exchangePositions(e)) |->
                               exchangePositions(e)[k].marketValue])])

\* getPortfolioSummary: the positions of every connected exchange whose
\* balance call succeeds, and the totals over them
GetPortfolioSummary(userId, input) ==
  LET connections_ ==
        SelectSeq(ExchangeNames, LAMBDA e : input.accounts[e].connected)
      answered ==
        SelectSeq(connections_, LAMBDA e : input.accounts[e].outcome = "ok")
      exchangePositions(e) ==
        ProcessExchangeBalances(e, input.accounts[e].balances, userId, input.prices)
      allPositions ==
        Flatten([k \in 1..Len(answered) |-> exchangePositions(answered[k])])
  IN IF ~input.dbOk THEN NullSummary
     ELSE IF Len(connections_) = 0 THEN ZeroSummary
     ELSE Summary(SumSeq([k \in 1..Len(allPositions) |-> allPositions[k].marketValue]),
                  SumSeq([k \in 1..Len(allPositions) |->
                            allPositions[k].quantity * allPositions[k].averagePrice]),
                  allPositions,
                  [e \in Range(answered) |->
                     SumSeq([k \in 1..Len(exchangePositions(e)) |->
                               exchangePositions(e)[k].marketValue])])

\* (marketValue / totalValue) * 100, in thousandths
Percentage(marketValue, totalValue) ==
  IF totalValue = 0 THEN NaN ELSE (marketValue * 100 * Scale) \div totalValue

\* Array.prototype.sort with (a, b) => b.percentage - a.percentage: stable,
\* and a NaN difference counts as 0
RECURSIVE SortDescending(_)
SortDescending(allocations) ==
  IF allocations = <<>> THEN <<>>
  ELSE LET first == Head(allocations)
           rest == SortDescending(Tail(allocations))
           before(a) == a.percentage # NaN /\ first.percentage # NaN
                        /\ a.percentage > first.percentage
           ahead == CHOOSE n \in 0..Len(rest) :
                      /\ \A k \in 1..n : before(rest[k])
                      /\ n < Len(rest) => ~before(rest[n + 1])
       IN SubSeq(rest, 1, ahead) \o <<first>> \o SubSeq(rest, ahead + 1, Len(rest))

\* getPortfolioAllocation over the summary it fetched
Allocation(portfolio) ==
  IF portfolio.null \/ Len(portfolio.positions) = 0 THEN <<>>
  ELSE SortDescending(
         [k \in 1..Len(portfolio.positions) |->
            [symbol |-> portfolio.positions[k].symbol,
             percentage |-> Percentage(portfolio.positions[k].marketValue,
                                       portfolio.totalValue),
             value |-> portfolio.positions[k].marketValue,
             quantity |-> portfolio.positions[k].quantity]])

\* positions.find(p => p.symbol === symbol): the index of the first position
\* of the symbol, 0 for undefined
FindPosition(positions, symbol) ==
  LET matches == {k \in 1..Len(positions) : positions[k].symbol = symbol}
  IN IF matches = {} THEN 0 ELSE CHOOSE k \in matches : \A j \in matches : k <= j

\* the order rebalancePortfolio proposes for one entry of targetAllocation,
\* as a list of one order or none; the quantity is in thousandths
RebalanceOrder(userId, portfolio, symbol, targetPercent) ==
  LET totalValue == portfolio.totalValue
      targetValue == (totalValue * targetPercent) \div 100
      found == FindPosition(portfolio.positions, symbol)
      currentValue == IF found # 0 THEN portfolio.positions[found].marketValue ELSE 0
      currentPrice == IF found # 0 THEN portfolio.positions[found].currentPrice ELSE Null
      difference == targetValue - currentValue
  IN IF Abs(difference) * 100 > totalValue
       THEN <<[userId |-> userId,
               exchangeName |-> IF found # 0
                                  THEN portfolio.positions[found].exchangeName
                                  ELSE "binance",
               symbol |-> symbol,
               side |-> IF difference > 0 THEN "BUY" ELSE "SELL",
               type |-> "MARKET",
               quantity |-> (Abs(difference) * Scale) \div OrElse(currentPrice, 1),
               targetAllocation |-> targetPercent]>>
       ELSE <<>>

\* rebalancePortfolio over the summary it fetched
Rebalance(userId, portfolio, targets) ==
  IF portfolio.null THEN [success |-> FALSE, orders |-> <<>>]
  ELSE LET entries == SelectSeq(TargetSymbols, LAMBDA symbol : targets[symbol] # Null)
       IN [success |-> TRUE,
           orders |-> Flatten([k \in 1..Len(entries) |->
                                 RebalanceOrder(userId, portfolio, entries[k],
                                                targets[entries[k]])])]

PortfolioCall(op, userId, input) ==
  /\ pfResult.op = "none"
  /\ pfInput' = input
  /\ UNCHANGED <<dataVars, signalVars, gatewayVars, connections, orders, placement, placeVars, cancelVars>>

GetPortfolioSummaryCall(userId, input) ==
  /\ input.targets = NoTargets
  /\ PortfolioCall("getPortfolioSummary", userId, input)
  /\ pfResult' = [NoCall EXCEPT !.op = "getPortfolioSummary", !.userId = userId,
                                !.summary = GetPortfolioSummary(userId, input)]

GetPortfolioAllocation(userId, input) ==
  /\ input.targets = NoTargets
  /\ PortfolioCall("getPortfolioAllocation", userId, input)
  /\ LET portfolio == GetPortfolioSummary(userId, input)
     IN pfResult' = [NoCall EXCEPT !.op = "getPortfolioAllocation",
                                   !.userId = userId,
                                   !.summary = portfolio,
                                   !.allocation = Allocation(portfolio)]

\* rebalancePortfolio carrying out its first proposal: the order is stored
RebalancePortfolio_Execute(userId, input) ==
  /\ pfResult.op = "none"
  /\ pfInput' = input
  /\ LET portfolio == GetPortfolioSummary(userId, input)
         rebalance == Rebalance(userId, portfolio, input.targets)
     IN /\ pfResult' = [NoCall EXCEPT !.op = "rebalancePortfolio",
                                      !.userId = userId,
                                      !.summary = portfolio,
                                      !.rebalance = rebalance]
        /\ IF rebalance.orders # <<>>
             THEN /\ orders' = Append(orders,
                         NewOrder(userId, rebalance.orders[1].symbol,
                                  rebalance.orders[1].side, "MARKET",
                                  rebalance.orders[1].quantity, Null,
                                  ExchangeOrderId, ConfigTag("none", 0, 0)))
                  /\ placement' = Append(placement, Len(orders) + 1)
             ELSE UNCHANGED <<orders, placement>>
  /\ UNCHANGED <<dataVars, signalVars, gatewayVars, connections, placeVars, cancelVars>>

RebalancePortfolio(userId, input) ==
  /\ PortfolioCall("rebalancePortfolio", userId, input)
  /\ LET portfolio == GetPortfolioSummary(userId, input)
     IN pfResult' = [NoCall EXCEPT !.op = "rebalancePortfolio",
                                   !.userId = userId,
                                   !.summary = portfolio,
                                   !.rebalance = Rebalance(userId, portfolio,
                                                           input.targets)]

\* the result is handed to the caller
PortfolioReturn ==
  /\ pfResult.op # "none"
  /\ pfInput' = NoInput
  /\ pfResult' = NoCall
  /\ UNCHANGED <<dataVars, signalVars, gatewayVars, connections, orders, placement, placeVars, cancelVars>>

\* ------------------------------------------------- signal engine routes
\* GET /ai-analysis/:symbol and GET /signals/:symbol: the series is run
\* through performTechnicalAnalysis; /signals takes the newest point as the
\* current price and 0 as the 24h change
SignalAnalysis(input) ==
  /\ analysis.signal = "none"
  /\ sigInput' = input
  /\ LET prices == Series(input.shape, input.length, input.step)
         currentPrice ==
           IF input.quoted = Null THEN Latest(Numbers(prices))
           ELSE Num(input.quoted * Scale)
     IN analysis' = PerformTechnicalAnalysis(prices, currentPrice, input.change24h)
  /\ UNCHANGED <<dataVars, portfolioVars, gatewayVars, connections, orders, placement,
                 placeVars, cancelVars>>

\* res.json: the analysis is sent
SignalReturn ==
  /\ analysis.signal # "none"
  /\ sigInput' = NoSignalInput
  /\ analysis' = NoAnalysis
  /\ UNCHANGED <<dataVars, portfolioVars, gatewayVars, connections, orders, placement,
                 placeVars, cancelVars>>

\* ---------------------------- RealTimeMarketDataService: the update feed
\* the symbols updateMarketData walks through, in order
FeedSymbols == <<"BTCUSDT", "ETHUSDT", "SOLUSDT", "BNBUSDT">>

FreeCycles == {c \in 1..MaxCycles : cycles[c] = NoCycle}

\* a call of updateMarketData, up to its first await: the fetch of the
\* first symbol
UpdateMarketData ==
  LET c == CHOOSE free \in FreeCycles : \A other \in FreeCycles : free <= other
  IN cycles' = [cycles EXCEPT ![c] = Cycle(1, "fetch")]

\* start: sets isRunning, sets the interval timer and makes the initial
\* update, which it does not await
Start ==
  /\ ~isRunning
  /\ FreeCycles # {}
  /\ isRunning' = TRUE
  /\ updateInterval' = TRUE
  /\ UpdateMarketData
  /\ UNCHANGED <<feedEvent, cacheVars, signalVars,
                 portfolioVars, gatewayVars, connections, orders,
                 placement, placeVars, cancelVars>>

\* stop: clears isRunning and the interval timer; the cycles in flight are
\* not told
Stop ==
  /\ isRunning
  /\ isRunning' = FALSE
  /\ updateInterval' = FALSE
  /\ UNCHANGED <<cycles, feedEvent, cacheVars, signalVars,
                 portfolioVars, gatewayVars, connections,
                 orders, placement, placeVars, cancelVars>>

\* the interval callback: returns when the service is not running, else
\* starts an update cycle
IntervalTick ==
  /\ updateInterval
  /\ FreeCycles # {}
  /\ IF ~isRunning THEN UNCHANGED cycles ELSE UpdateMarketData
  /\ UNCHANGED <<isRunning, updateInterval, feedEvent, cacheVars, signalVars,
                 portfolioVars,
                 gatewayVars, connections, orders, placement, placeVars, cancelVars>>

\* fetchMarketData resolves, with the exchange's ticker or the mock data,
\* and storeMarketData is called
CycleFetch(c) ==
  /\ cycles[c].at = "fetch"
  /\ cycles' = [cycles EXCEPT ![c].at = "store"]
  /\ UNCHANGED <<isRunning, updateInterval, feedEvent, cacheVars, signalVars,
                 portfolioVars,
                 gatewayVars, connections, orders, placement, placeVars, cancelVars>>

\* the upsert of storeMarketData is carried out, or fails and is logged
CycleStore(c, dbOk) ==
  /\ cycles[c].at = "store"
  /\ cycles' = [cycles EXCEPT ![c].at = "broadcast"]
  /\ feedEvent' = IF dbOk THEN FeedEvent("store", cycles[c].symbol, isRunning)
                  ELSE feedEvent
  /\ UNCHANGED <<isRunning, updateInterval, cacheVars, signalVars,
                 portfolioVars,
                 gatewayVars, connections, orders, placement, placeVars, cancelVars>>

\* storeMarketData resolved: broadcastMarketData emits marketDataUpdate and
\* the 100 ms delay begins
CycleBroadcast(c) ==
  /\ cycles[c].at = "broadcast"
  /\ cycles' = [cycles EXCEPT ![c].at = "delay"]
  /\ feedEvent' = FeedEvent("broadcast", cycles[c].symbol, isRunning)
  /\ UNCHANGED <<isRunning, updateInterval, cacheVars, signalVars,
                 portfolioVars,
                 gatewayVars, connections, orders, placement, placeVars, cancelVars>>

\* the delay is over: the loop goes on to the next symbol or ends
CycleDelay(c) ==
  /\ cycles[c].at = "delay"
  /\ cycles' = [cycles EXCEPT
                  ![c] = IF cycles[c].symbol < Len(FeedSymbols)
                           THEN Cycle(cycles[c].symbol + 1, "fetch")
                           ELSE NoCycle]
  /\ UNCHANGED <<isRunning, updateInterval, feedEvent, cacheVars, signalVars,
                 portfolioVars,
                 gatewayVars, connections, orders, placement, placeVars, cancelVars>>

\* ------------------------------- RealDataService: the cached price
\* cacheTimeout, in ms
CacheTimeout == 30000
\* the clock is looked at three times in a cacheTimeout
ClockStep == CacheTimeout \div 3

\* the second source asked: Binance in demo/real-data-service.js, CoinGecko
\* in the copy of the class in unnamed/part_006
SecondarySources == {"binance", "coingecko"}

\* the freshness test of getRealTimePrice with an entry aged exactly
\* cacheTimeout still served
CacheFresh_Inclusive(entry, time) == time - entry.timestamp <= CacheTimeout

\* the freshness test of getRealTimePrice
CacheFresh(entry, time) == time - entry.timestamp < CacheTimeout

\* cache.set of a price just fetched, and its return
CacheAndReturn(c, source) ==
  /\ cache' = Entry(PriceData(source, now), now)
  /\ served' = Served(source, FALSE, 0)
  /\ calls' = [calls EXCEPT ![c] = "idle"]

\* getRealTimePrice up to its first await: a fresh entry is returned, else
\* Kraken is asked
GetRealTimePrice(c) ==
  /\ calls[c] = "idle"
  /\ IF cache.present /\ CacheFresh(cache, now)
       THEN /\ served' = Served(cache.data.source, TRUE, now - cache.timestamp)
            /\ UNCHANGED calls
       ELSE /\ calls' = [calls EXCEPT ![c] = "kraken"]
            /\ UNCHANGED served
  /\ UNCHANGED <<now, cache, feedVars, signalVars, portfolioVars, gatewayVars,
                 connections, orders, placement, placeVars, cancelVars>>

\* Kraken answers: a ticker is cached and returned; an empty result or a
\* throw goes on to the second source
KrakenResponds(c, ok) ==
  /\ calls[c] = "kraken"
  /\ IF ok
       THEN CacheAndReturn(c, "kraken")
       ELSE /\ calls' = [calls EXCEPT ![c] = "secondary"]
            /\ UNCHANGED <<cache, served>>
  /\ UNCHANGED <<now, feedVars, signalVars, portfolioVars, gatewayVars,
                 connections, orders, placement, placeVars, cancelVars>>

\* the second source answers: a price is cached and returned; otherwise a
\* generated price is returned with source 'fallback' and nothing is cached
SecondaryResponds(c, source, ok) ==
  /\ calls[c] = "secondary"
  /\ IF ok
       THEN CacheAndReturn(c, source)
       ELSE /\ served' = Served("fallback", FALSE, 0)
            /\ calls' = [calls EXCEPT ![c] = "idle"]
            /\ UNCHANGED cache
  /\ UNCHANGED <<now, feedVars, signalVars, portfolioVars, gatewayVars,
                 connections, orders, placement, placeVars, cancelVars>>

\* time passes
ClockTick ==
  /\ now < MaxTicks * ClockStep
  /\ now' = now + ClockStep
  /\ UNCHANGED <<cache, calls, served, feedVars, signalVars, portfolioVars, gatewayVars,
                 connections, orders, placement, placeVars, cancelVars>>

\* ------------------------------------------------------- specification
OrderIds == 1..MaxOrders

ResponsesFor(orderId) ==
  IF orderId \in 1..Len(orders) THEN ExchangeResponses(orders[orderId]) ELSE {}

\* a call of placeOrder, its request and config drawn from the given sets,
\* while the ledger has room for the records the call may create
PlaceCall(requests, configs, room) ==
  \E orderRequest \in requests, config \in configs,
     upstream \in UpstreamPrices \cup {Null}, change \in MockChanges,
     balance \in GatewayOutcomes :
    /\ 1 + LegCount(config) <= room
    /\ PlaceOrder(orderRequest, config, upstream, change, balance)

Primaries == {i \in 1..Len(orders) : orders[i].config.type = "none"}

\* the awaited steps of the placeOrder call in flight
PlaceStep ==
  \/ \E upstream \in UpstreamPrices \cup {Null}, change \in MockChanges,
        outcome \in GatewayOutcomes, dbOk \in BOOLEAN :
       PlaceMainOrder(upstream, change, outcome, dbOk)
  \/ \E outcome \in GatewayOutcomes, dbOk \in BOOLEAN :
       PlaceStopLossOrder(outcome, dbOk)
  \/ \E outcome \in GatewayOutcomes, dbOk \in BOOLEAN :
       PlaceTakeProfitOrder(outcome, dbOk)
  \/ \E dbOk \in BOOLEAN : PlaceTrailingStopOrder(dbOk)
  \/ \E upstream \in UpstreamPrices \cup {Null}, change \in MockChanges :
       PlaceDCAOrders(upstream, change)
  \/ \E outcome \in GatewayOutcomes, dbOk \in BOOLEAN :
       PlaceDCALeg(outcome, dbOk)
  \/ PlaceOrderReturn

Next ==
  \/ /\ Cardinality(Primaries) < MaxGroups
     /\ PlaceCall(LedgerRequest, LedgerConfig, MaxOrders - Len(orders))
  \/ PlaceStep
  \/ \E userId \in Users, orderId \in OrderIds : CancelOrder(userId, orderId)
  \/ \E relatedId \in OrderIds : CancelRelatedOrder(relatedId)
  \/ \E userId \in Users, orderId \in OrderIds, outcome \in GatewayOutcomes :
       \E exchangeStatus \in ResponsesFor(orderId) :
         UpdateOrderStatus(userId, orderId, outcome, exchangeStatus)

Spec == Init /\ [][Next]_vars

\* one placeOrder call on the empty ledger, over every request and config:
\* room for the primary, the three single legs and a full ladder
PlaceNext ==
  \/ /\ pc = "idle" /\ orders = <<>>
     /\ PlaceCall(OrderRequest, AdvancedOrderConfig, 1 + 3 + MaxLevels)
  \/ PlaceStep

SpecPlace == Init /\ [][PlaceNext]_vars

\* the gateway alone, one operation at a time: its operations for any user,
\* tokens expiring, users connecting and disconnecting
GatewayNext ==
  \/ /\ lastOp.op = "none"
     /\ \/ \E op \in GatewayOps, userId \in Users, owner \in Users,
              refreshOutcome \in GatewayOutcomes, apiOutcome \in GatewayOutcomes :
             GatewayOperation(op, userId, owner, refreshOutcome, apiOutcome)
        \/ \E op \in GatewayOps, userId \in Users :
             GatewayOperationUnconnected(op, userId)
        \/ \E userId \in Users : TokenExpires(userId)
        \/ \E userId \in Users, refreshToken \in BOOLEAN :
             StoreTokens(userId, refreshToken)
        \/ \E userId \in Users : DisconnectExchange(userId)
  \/ GatewayReturn

SpecGateway == Init /\ [][GatewayNext]_vars

\* the PortfolioService alone: one call at a time over every input
PortfolioNext ==
  \/ /\ pfResult.op = "none"
     /\ \/ \E input \in PortfolioInput : GetPortfolioSummaryCall("u1", input)
        \/ \E input \in PortfolioInput : GetPortfolioAllocation("u1", input)
        \/ \E input \in PortfolioInput : RebalancePortfolio("u1", input)
  \/ PortfolioReturn

SpecPortfolio == Init /\ [][PortfolioNext]_vars

\* the inputs of the rebalance calls made beside the order pipeline: one
\* answering exchange holding SOL, targets on SOL and on the unheld symbol
LedgerInput ==
  {[NoInput EXCEPT
      !.accounts["binance"] =
         Account(TRUE, "ok", <<Balance("BTC", 0), Balance("SOL", free)>>),
      !.prices = [symbol \in HeldSymbols \cup {UnheldSymbol} |->
                    IF symbol = UnheldSymbol THEN 50 ELSE 100],
      !.targets = [NoTargets EXCEPT ![FormatSymbol("SOL")] = 50,
                                    ![UnheldSymbol] = unheld]] :
     free \in FreeBalances, unheld \in {Null, 20}}

\* the order pipeline with rebalance calls between its steps
RebalanceNext ==
  \/ /\ pfResult.op = "none"
     /\ Next
  \/ /\ pc = "idle" /\ cancelPc = "idle"
     /\ \E input \in LedgerInput : RebalancePortfolio("u1", input)
  \/ PortfolioReturn

SpecRebalance == Init /\ [][RebalanceNext]_vars

\* the ledger with its cancelOrder requests served between placeOrder calls
CancelNext ==
  \/ /\ Cardinality(Primaries) < MaxGroups
     /\ PlaceCall(LedgerRequest, LedgerConfig, MaxOrders - Len(orders))
  \/ PlaceStep
  \/ /\ pc = "idle"
     /\ \E userId \in Users, orderId \in OrderIds : CancelOrder(userId, orderId)
  \/ /\ pc = "idle"
     /\ \E relatedId \in OrderIds : CancelRelatedOrder(relatedId)

SpecCancel == Init /\ [][CancelNext]_vars

\* the same with the awaited nested cancelOrder calls always resumed
SpecCancelLive ==
  /\ SpecCancel
  /\ WF_vars(pc = "idle" /\ \E relatedId \in OrderIds : CancelRelatedOrder(relatedId))

\* the ledger with room for MaxGroups placements of a primary and one leg
\* each, and its cancelOrder requests served between placeOrder calls
GroupIds == 1..(2 * MaxGroups)

GroupNext ==
  \/ /\ Cardinality(Primaries) < MaxGroups
     /\ PlaceCall({r \in LedgerRequest : r.userId = "u1"}, LedgerConfig,
                  2 * MaxGroups - Len(orders))
  \/ PlaceStep
  \/ /\ pc = "idle"
     /\ \E userId \in Users, orderId \in GroupIds : CancelOrder(userId, orderId)
  \/ /\ pc = "idle"
     /\ \E relatedId \in GroupIds : CancelRelatedOrder(relatedId)

SpecGroups == Init /\ [][GroupNext]_vars

\* the market data feed alone: start and stop at any time, the timer and
\* the cycles in flight
FeedNext ==
  \/ Start
  \/ Stop
  \/ IntervalTick
  \/ \E c \in 1..MaxCycles : CycleFetch(c)
  \/ \E c \in 1..MaxCycles, dbOk \in BOOLEAN : CycleStore(c, dbOk)
  \/ \E c \in 1..MaxCycles : CycleBroadcast(c)
  \/ \E c \in 1..MaxCycles : CycleDelay(c)

SpecFeed == Init /\ [][FeedNext]_vars

\* the price cache alone: getRealTimePrice calls overlapping at will
CacheNext ==
  \/ \E c \in 1..MaxCalls : GetRealTimePrice(c)
  \/ \E c \in 1..MaxCalls, ok \in BOOLEAN : KrakenResponds(c, ok)
  \/ \E c \in 1..MaxCalls, source \in SecondarySources, ok \in BOOLEAN :
       SecondaryResponds(c, source, ok)
  \/ ClockTick

SpecCache == Init /\ [][CacheNext]_vars

\* the signal engine alone, one request at a time over every series
SignalNext ==
  \/ /\ analysis.signal = "none"
     /\ \E input \in SignalInput : SignalAnalysis(input)
  \/ SignalReturn

SpecSignal == Init /\ [][SignalNext]_vars

\* ---------------------------------------------------------- properties
\* A finished placeOrder call is observed at pc = "done": its result is set
\* and its request, config and call histories are still in place.

IsPrimary(order) == order.config.type = "none"

\* the records created by the placeOrder call that created the primary
Siblings(primaryId) == {i \in 1..Len(orders) : placement[i] = primaryId}

\* C1: placeOrder with quantity <= 0, for a user who has an active
\* connection, returns the failure 'Quantity must be greater than 0', calls
\* neither placeOrder nor getAccountBalance of the gateway, and creates no
\* Order record.
C1_InvalidQuantityRejected ==
  (pc = "done" /\ connections[req.userId] /\ req.quantity <= 0)
    => /\ result = Failure(ErrQuantity)
       /\ gwCalls = <<>>
       /\ balanceCalls = 0
       /\ orders = <<>>

\* a LIMIT request without a price and with a negative quantity was rejected
C1_Witness ==
  /\ pc = "done"
  /\ connections[req.userId]
  /\ req.quantity < 0
  /\ req.type = "LIMIT"
  /\ req.price = Null
  /\ ~result.success

C3_CancelPrimaryCancelsSiblings ==
  [][\A userId \in Users, orderId \in OrderIds :
       (/\ FindOrder(userId, orderId)
        /\ {orders[i].config.type : i \in Siblings(orderId)}
             = {"none", "stop_loss", "take_profit"}
        /\ CancelOrder(userId, orderId))
         => \A i \in Siblings(orderId) : orders'[i].status = "CANCELLED"]_vars

\* C4: within one placeOrder call the gateway placement and the record of
\* the primary are complete before a derived leg is attempted, and in every
\* state a stored derived order has the stored primary of its call before it.
C4_PrimaryBeforeDerived ==
  /\ attempted # <<>> =>
       /\ gwCalls # <<>> /\ gwCalls[1] = PrimaryLeg
       /\ mainId \in 1..Len(orders)
       /\ IsPrimary(orders[mainId])
  /\ \A i \in 1..Len(orders) :
       ~IsPrimary(orders[i]) =>
         /\ placement[i] \in 1..(i - 1)
         /\ IsPrimary(orders[placement[i]])
         /\ orders[placement[i]].userId = orders[i].userId

\* a call finished with its stop-loss and its take-profit stored
C4_Witness ==
  /\ pc = "done"
  /\ \E i, j \in 1..Len(orders) :
       /\ orders[i].config.type = "stop_loss"
       /\ orders[j].config.type = "take_profit"
       /\ placement[i] = mainId /\ placement[j] = mainId

\* C5: placement is never retried: within one placeOrder call the gateway's
\* placeOrder is called at most once for the primary and at most once for
\* each derived leg, also when a call fails.
C5_NoPlacementRetry ==
  \A j, k \in 1..Len(gwCalls) : gwCalls[j] = gwCalls[k] => j = k

\* a call with a two-level ladder finished with the first level refused: the
\* primary and the level were each handed to the gateway once
C5_Witness ==
  /\ pc = "done"
  /\ result.success
  /\ gwCalls = <<PrimaryLeg, Leg("dca", 1)>>
  /\ cfg.dcaConfig.levels = 2
  /\ advanced = <<>>

\* the legs a config asks for
ConfiguredLegs(config) ==
  (IF config.stopLoss.enabled THEN {Leg("stop_loss", 0)} ELSE {})
  \cup (IF config.takeProfit.enabled THEN {Leg("take_profit", 0)} ELSE {})
  \cup (IF config.trailingStop.enabled THEN {Leg("trailing_stop", 0)} ELSE {})
  \cup (IF config.dcaConfig.enabled
          THEN {Leg("dca", i) : i \in 1..config.dcaConfig.levels} ELSE {})

\* the placeOrder call got past its primary and has returned
PrimaryPlaced == pc = "done" /\ mainId # 0

\* C6: a derived leg's failure is isolated: the legs already placed stay as
\* they were placed, and every other configured leg, the remaining DCA legs
\* i+1..N included, is still attempted.
C6_LegFailureIsolated ==
  PrimaryPlaced =>
    /\ \A k \in 1..Len(advanced) :
         /\ advanced[k] \in 1..Len(orders)
         /\ orders[advanced[k]].status = "PENDING"
    /\ \A leg \in ConfiguredLegs(cfg) : leg \in Range(attempted)

\* C7: when the primary succeeds and a configured leg fails, the result
\* names the failure: it is never the plain success result.
C7_PartialSuccessReported ==
  (PrimaryPlaced /\ Len(advanced) < LegCount(cfg))
    => ~(result.success /\ result.error = NoError)

\* C8: once the status of an Order record is FILLED, CANCELLED or REJECTED,
\* no cancelOrder and no updateOrderStatus changes it.
C8_TerminalStatusFinal ==
  [][\A i \in 1..Len(orders) :
       orders[i].status \in Terminal => orders'[i].status = orders[i].status]_vars

\* C9: every derived record carries the group of the primary of its
\* placeOrder call: the lookup that resolves an order's group, the one
\* cancelOrder makes, finds the primary among the derived order's group.
C9_DerivedSharesGroup ==
  \A i \in 1..Len(orders) :
    ~IsPrimary(orders[i]) => placement[i] \in RelatedOrders(orders[i])

\* C10: when validation passes and every gateway and persistence call
\* succeeds, placeOrder makes exactly 1 + L gateway placeOrder calls and
\* returns exactly 1 + L orders, the primary first, L counting one per
\* enabled stop-loss, take-profit and trailing stop and `levels` for a ladder.
C10_CallsAndOrders ==
  (PrimaryPlaced /\ Len(advanced) = LegCount(cfg))
    => /\ Len(gwCalls) = 1 + LegCount(cfg)
       /\ Len(result.orders) = 1 + LegCount(cfg)
       /\ result.orders[1] = mainId

\* the side that closes a position opened on `side`
ClosingSide(side) == IF side = "BUY" THEN "SELL" ELSE "BUY"

\* the stored primary of the placeOrder call in flight or just finished
CallPrimary == orders[mainId]

\* the stored derived records of that call with the given tag
CallLegs(type) ==
  {i \in 1..Len(orders) :
     placement[i] = mainId /\ i # mainId /\ orders[i].config.type = type}

\* C11: for a primary of quantity Q the stop-loss is a STOP_LIMIT order on
\* the opposite side for Q at the configured stop-loss price, and the
\* take-profit is a LIMIT order on the opposite side for Q at the target
\* price.
C11_ProtectiveLegs ==
  mainId # 0 =>
    /\ \A i \in CallLegs("stop_loss") :
         /\ orders[i].type = "STOP_LIMIT"
         /\ orders[i].side = ClosingSide(CallPrimary.side)
         /\ orders[i].quantity = CallPrimary.quantity
         /\ orders[i].price = cfg.stopLoss.price
    /\ \A i \in CallLegs("take_profit") :
         /\ orders[i].type = "LIMIT"
         /\ orders[i].side = ClosingSide(CallPrimary.side)
         /\ orders[i].quantity = CallPrimary.quantity
         /\ orders[i].price = cfg.takeProfit.price

\* C12: a ladder of N levels with step s on a primary of quantity Q at the
\* current price P is N LIMIT orders on the primary's side, each of quantity
\* Q/N so that they sum to Q, leg i priced P - s*i for a BUY primary and
\* P + s*i for a SELL primary and tagged level i of N.
C12_DCALadder ==
  (mainId # 0 /\ cfg.dcaConfig.enabled) =>
    /\ \A i \in CallLegs("dca") :
         /\ orders[i].type = "LIMIT"
         /\ orders[i].side = CallPrimary.side
         /\ orders[i].quantity * cfg.dcaConfig.levels = CallPrimary.quantity
         /\ orders[i].config.level \in 1..cfg.dcaConfig.levels
         /\ orders[i].config.totalLevels = cfg.dcaConfig.levels
         /\ orders[i].price =
              IF CallPrimary.side = "BUY"
                THEN dcaPrice - cfg.dcaConfig.stepSize * orders[i].config.level
                ELSE dcaPrice + cfg.dcaConfig.stepSize * orders[i].config.level
    /\ \A i, j \in CallLegs("dca") :
         orders[i].config.level = orders[j].config.level => i = j
    /\ (pc = "done" /\ Len(advanced) = LegCount(cfg)) =>
         {orders[i].config.level : i \in CallLegs("dca")} = 1..cfg.dcaConfig.levels

\* the failure of the first failing check among connection, quantity, price
\* and symbol, NoError when the four pass; the symbol check fails when the
\* ticker request for the symbol fails (upstream = Null)
FirstFailingCheck(orderRequest, upstream) ==
  IF ~connections[orderRequest.userId] THEN ErrNoConnection
  ELSE IF orderRequest.quantity <= 0 THEN ErrQuantity
  ELSE IF /\ orderRequest.type \in {"LIMIT", "STOP_LIMIT"}
          /\ (orderRequest.price = Null \/ orderRequest.price <= 0) THEN ErrPrice
  ELSE IF upstream = Null THEN ErrSymbol
  ELSE NoError

\* C13: validateOrder runs its checks in the order connection, quantity,
\* price, symbol and reports the first failing one; the symbol check is
\* reached only when the first three pass, and it fails whenever the
\* market-data collaborator cannot resolve the symbol.
C13_ValidationOrder ==
  [][\A upstream \in UpstreamPrices \cup {Null}, change \in MockChanges,
        balance \in GatewayOutcomes :
       PlaceOrder(req', cfg', upstream, change, balance) =>
         LET expected == FirstFailingCheck(req', upstream)
         IN IF expected # NoError
              THEN result' = Failure(expected)
              ELSE result'.error \notin
                     {ErrNoConnection, ErrQuantity, ErrPrice, ErrSymbol}]_vars

\* placeOrder returned the failure of validateOrder: it never reached the
\* placement of the main order
ValidationFailed == pc = "done" /\ ~result.success /\ gwCalls = <<>>

\* C14: whenever placeOrder returns a validation failure, of any kind, no
\* gateway call (placeOrder, getAccountBalance) was made during the call.
C14_ValidationBeforeGateway ==
  ValidationFailed => balanceCalls = 0

\* C15: updateOrderStatus called twice in a row for the same order, the
\* exchange answering the same both times, leaves status, filledQuantity and
\* averagePrice as the first call left them.
C15_UpdateIdempotent ==
  \A orderId \in 1..Len(orders), outcome \in GatewayOutcomes :
    \A exchangeStatus \in ExchangeResponses(orders[orderId]) :
      LET once == UpdatedOrders(orders, orderId, outcome, exchangeStatus)
          twice == UpdatedOrders(once, orderId, outcome, exchangeStatus)
      IN /\ twice[orderId].status = once[orderId].status
         /\ twice[orderId].filledQuantity = once[orderId].filledQuantity
         /\ twice[orderId].averagePrice = once[orderId].averagePrice

\* an order was reconciled to FILLED with its whole quantity, the state a
\* second updateOrderStatus with the same answer starts from
C15_Witness ==
  \E orderId \in 1..Len(orders) :
    /\ orders[orderId].status = "FILLED"
    /\ orders[orderId].filledQuantity = orders[orderId].quantity
    /\ orders[orderId].quantity > 0
    /\ orders[orderId] =
         Reconciled(orders[orderId],
                    [status |-> "FILLED",
                     filledQuantity |-> orders[orderId].quantity,
                     averagePrice |-> BasePrice])

\* C16: when the access token is expired, a gateway operation makes exactly
\* one refresh attempt; when the refresh succeeds the operation goes on to
\* the exchange with the refreshed token, the one now stored; when it fails
\* the operation surfaces the missing token without a second refresh attempt
\* and without an exchange API call.
C16_SingleRefresh ==
  [][\A owner \in Users, refreshOutcome \in GatewayOutcomes,
        apiOutcome \in GatewayOutcomes :
       (/\ tokens[owner].expired
        /\ lastOp'.op \in GatewayOps
        /\ GatewayOperation(lastOp'.op, lastOp'.userId, owner,
                            refreshOutcome, apiOutcome))
         => /\ lastOp'.refreshes = 1
            /\ \/ /\ lastOp'.apiCalls = 1
                  /\ lastOp'.accessToken # NoToken
                  /\ lastOp'.accessToken # tokens[owner].accessToken
                  /\ lastOp'.accessToken = tokens'[owner].accessToken
                  /\ ~tokens'[owner].expired
               \/ /\ lastOp'.apiCalls = 0
                  /\ lastOp'.error = ErrNoToken
                  /\ tokens'[owner] = tokens[owner]]_vars

\* a gateway operation found the token expired and the refresh failed
C16_Witness ==
  /\ lastOp.op = "placeOrder"
  /\ lastOp.expired
  /\ lastOp.refreshes = 1
  /\ lastOp.error = ErrNoToken

\* the exchanges of the call in flight that the user is connected to and
\* whose balance call fails
FailedExchanges ==
  {e \in Range(ExchangeNames) :
     pfInput.accounts[e].connected /\ pfInput.accounts[e].outcome # "ok"}

\* the input of the call in flight with the exchange not connected
Without(e) ==
  [pfInput EXCEPT !.accounts[e] = Account(FALSE, "ok", <<>>)]

\* C17: getPortfolioSummary for a user with several active connections, the
\* balance call failing for one exchange, returns a snapshot, not null: the
\* failed exchange contributes no position and no value, and positions and
\* totals are what they would be were the failing exchange not connected.
C17_FailedExchangeIsolated ==
  (/\ pfResult.op = "getPortfolioSummary"
   /\ pfInput.dbOk
   /\ \A e \in Range(ExchangeNames) : pfInput.accounts[e].connected)
    => \A e \in FailedExchanges :
         /\ ~pfResult.summary.null
         /\ e \notin DOMAIN pfResult.summary.exchanges
         /\ \A k \in 1..Len(pfResult.summary.positions) :
              pfResult.summary.positions[k].exchangeName # e
         /\ pfResult.summary = GetPortfolioSummary(pfResult.userId, Without(e))

\* binance failed while coinbase answered two positions with a value
C17_Witness ==
  /\ pfResult.op = "getPortfolioSummary"
  /\ FailedExchanges = {"binance"}
  /\ pfInput.accounts["coinbase"].connected
  /\ Len(pfResult.summary.positions) = 2
  /\ pfResult.summary.totalValue > 0
  /\ pfResult.summary.exchanges["coinbase"] = pfResult.summary.totalValue

\* the percentages of the returned allocation, summed, in thousandths
PercentageSum ==
  SumSeq([k \in 1..Len(pfResult.allocation) |-> pfResult.allocation[k].percentage])

\* C18: the percentages getPortfolioAllocation returns sum to 100 within 0.1
\* whenever the snapshot's totalValue is > 0, and the list is empty whenever
\* totalValue = 0, also when positions with a quantity exist whose market
\* values are all 0.
C18_AllocationSums ==
  (pfResult.op = "getPortfolioAllocation" /\ ~pfResult.summary.null) =>
    /\ pfResult.summary.totalValue > 0 =>
         Abs(PercentageSum - 100 * Scale) * 10 <= Scale
    /\ pfResult.summary.totalValue = 0 => pfResult.allocation = <<>>

\* what the snapshot holds of a symbol: the market value of its positions
SymbolValue(portfolio, symbol) ==
  SumSeq([k \in 1..Len(portfolio.positions) |->
            IF portfolio.positions[k].symbol = symbol
              THEN portfolio.positions[k].marketValue ELSE 0])

\* targetValue - currentValue of a targeted symbol of the call in flight
Difference(symbol) ==
  (pfResult.summary.totalValue * pfInput.targets[symbol]) \div 100
  - SymbolValue(pfResult.summary, symbol)

\* the proposals of the call in flight for a symbol
Proposals(symbol) ==
  {k \in 1..Len(pfResult.rebalance.orders) :
     pfResult.rebalance.orders[k].symbol = symbol}

Targeted == {symbol \in Range(TargetSymbols) : pfInput.targets[symbol] # Null}

\* C19: rebalancePortfolio proposes an order for a targeted symbol if and
\* only if |targetValue - currentValue| exceeds 1% of totalValue, a BUY when
\* the difference is positive and a SELL when it is negative; a portfolio
\* whose targeted symbols are all within 1% of their targets gets no proposal.
C19_MaterialityThreshold ==
  (pfResult.op = "rebalancePortfolio" /\ pfResult.rebalance.success) =>
    \A symbol \in Targeted :
      IF Abs(Difference(symbol)) * 100 > pfResult.summary.totalValue
        THEN /\ Cardinality(Proposals(symbol)) = 1
             /\ \A k \in Proposals(symbol) :
                  pfResult.rebalance.orders[k].side =
                    IF Difference(symbol) > 0 THEN "BUY" ELSE "SELL"
        ELSE Proposals(symbol) = {}

\* C20: every order rebalancePortfolio proposes has the quantity
\* |targetValue - currentValue| / currentPrice(symbol), also for a symbol
\* the user holds no position in: with totalValue 1000 and a target of 20%
\* on an unheld symbol the proposal is a BUY of 200 / currentPrice(symbol).
C20_ProposalQuantity ==
  (pfResult.op = "rebalancePortfolio" /\ pfResult.rebalance.success) =>
    \A k \in 1..Len(pfResult.rebalance.orders) :
      LET order == pfResult.rebalance.orders[k]
          currentPrice == pfInput.prices[order.symbol]
      IN currentPrice > 0 =>
           order.quantity = (Abs(Difference(order.symbol)) * Scale) \div currentPrice

\* C21: rebalancePortfolio returns proposals only: during the call the
\* gateway's placeOrder is not called and no Order record is created or
\* modified.
C21_RebalanceProposesOnly ==
  [][(pfResult.op = "none" /\ pfResult'.op = "rebalancePortfolio")
       => /\ orders' = orders
          /\ placement' = placement
          /\ gwCalls' = gwCalls
          /\ lastOp' = lastOp]_vars

\* a rebalance call made while the ledger holds orders returned a proposal
C21_Witness ==
  /\ pfResult.op = "rebalancePortfolio"
  /\ pfResult.rebalance.success
  /\ Len(pfResult.rebalance.orders) >= 1
  /\ Len(orders) >= 2

\* what each indicator can contribute: one of its entries, or (RSI, 24h
\* change) nothing
SMA20Outcomes ==
  {<<Fired("SMA20", "Price above SMA20", 1)>>,
   <<Fired("SMA20", "Price below SMA20", 0 - 1)>>}
SMA50Outcomes ==
  {<<Fired("SMA50", "Price above SMA50", 1)>>,
   <<Fired("SMA50", "Price below SMA50", 0 - 1)>>}
RSIOutcomes ==
  {<<>>, <<Fired("RSI", "RSI oversold", 2)>>,
   <<Fired("RSI", "RSI overbought", 0 - 2)>>}
MACDOutcomes ==
  {<<Fired("MACD", "MACD bullish", 1)>>, <<Fired("MACD", "MACD bearish", 0 - 1)>>}
ChangeOutcomes ==
  {<<>>, <<Fired("24h", "Strong 24h gain", 1)>>,
   <<Fired("24h", "Strong 24h decline", 0 - 1)>>}

\* every list of fired sub-signals in the order SMA20, SMA50, RSI, MACD, 24h
FiredLists ==
  {a \o b \o c \o d \o e : a \in SMA20Outcomes, b \in SMA50Outcomes,
                             c \in RSIOutcomes, d \in MACDOutcomes,
                             e \in ChangeOutcomes}

Entries(fired) == [k \in 1..Len(fired) |-> fired[k].entry]
Score(fired) == SumSeq([k \in 1..Len(fired) |-> fired[k].points])

\* the sub-signals the reasoning of the analysis in flight lists
ReasonedLists == {fired \in FiredLists : Join(Entries(fired)) = analysis.reasoning}

\* C22: the reasoning of every analysis lists fired sub-signals in the order
\* SMA20, SMA50, RSI, MACD, 24h change; with score the sum of their points the
\* signal is BUY iff score >= 3, SELL iff score <= -3 and HOLD otherwise, and
\* the confidence is min(95, |score| * 15), a value in [0, 95]
C22_ScoreDecidesSignal ==
  analysis.signal # "none" =>
    /\ ReasonedLists # {}
    /\ \A fired \in ReasonedLists :
         LET score == Score(fired)
         IN /\ (analysis.signal = "BUY") <=> (score >= 3)
            /\ (analysis.signal = "SELL") <=> (score <= 0 - 3)
            /\ (analysis.signal = "HOLD") <=> (score > 0 - 3 /\ score < 3)
            /\ analysis.confidence =
                 (IF Abs(score) * 15 < 95 THEN Abs(score) * 15 ELSE 95)
            /\ analysis.confidence \in 0..95

\* a BUY on the threshold: score 3, confidence 45, four or five entries
C22_Witness ==
  /\ analysis.signal = "BUY"
  /\ analysis.confidence = 45
  /\ \E fired \in ReasonedLists : Score(fired) = 3 /\ Len(fired) >= 4

\* the series of the analysis in flight
AnalysedPrices == Series(sigInput.shape, sigInput.length, sigInput.step)

\* the value of the indicator a sub-signal was computed from; the 24h change
\* is always supplied
IndicatorValue(indicator) ==
  CASE indicator = "SMA20" -> analysis.indicators.sma20
    [] indicator = "SMA50" -> analysis.indicators.sma50
    [] indicator = "RSI" -> analysis.indicators.rsi
    [] indicator = "MACD" -> analysis.indicators.macd
    [] indicator = "24h" -> Num(sigInput.change24h * Scale)

\* C23: an analysis of a series shorter than the longest lookback (50 points)
\* is a no-confidence result, neither BUY nor SELL, and its reasoning has no
\* entry of an indicator whose value is missing
C23_InsufficientData ==
  (analysis.signal # "none" /\ sigInput.length < 50) =>
    /\ analysis.signal \notin {"BUY", "SELL"}
    /\ analysis.confidence = 0
    /\ \A fired \in ReasonedLists : \A k \in 1..Len(fired) :
         IsNumber(IndicatorValue(fired[k].indicator))

\* C24: the analysis of a strictly increasing series of at least 26 points
\* with the newest point as current price is a BUY with confidence above 50
C24_UptrendBuys ==
  (/\ analysis.signal # "none"
   /\ sigInput.shape = "up"
   /\ sigInput.length >= 26
   /\ sigInput.quoted = Null) =>
    /\ analysis.signal \in {"BUY", "STRONG_BUY"}
    /\ analysis.confidence > 50

\* the changes of the k-th RSI window of a series
WindowChanges(prices, k) == [j \in 1..14 |-> prices[k + j] - prices[k + j - 1]]

\* C25: every RSI(14) value of a series of more than 14 points is a number in
\* [0, 100]: 100 when every change of its window is a gain, 0 when every
\* change is a loss, and a number in [0, 100] too when every change is zero
C25_RSIRange ==
  (analysis.signal # "none" /\ sigInput.length > 14) =>
    LET rsi == CalculateRSI(AnalysedPrices, 14)
    IN /\ Len(rsi) > 0
       /\ \A k \in 1..Len(rsi) :
            LET changes == Range(WindowChanges(AnalysedPrices, k))
            IN /\ IsNumber(rsi[k])
               /\ rsi[k].value >= 0
               /\ rsi[k].value <= 100 * Scale
               /\ (\A c \in changes : c > 0) => rsi[k].value = 100 * Scale
               /\ (\A c \in changes : c < 0) => rsi[k].value = 0

\* EMA12 - EMA26 with both averages read at the same point of the series,
\* and the EMA9 of that series
AlignedMACD(prices) ==
  LET ema12 == CalculateEMA(Numbers(prices), 12)
      ema26 == CalculateEMA(Numbers(prices), 26)
      offset == Len(ema12) - Len(ema26)
      macd == [i \in 1..Len(ema26) |-> Minus(ema12[i + offset], ema26[i])]
  IN [macd |-> macd, signal |-> CalculateEMA(macd, 9)]

\* C27: for a series of at least 26 points the MACD value the analysis scores
\* is EMA12 minus EMA26 at the newest point, the MACD-signal value is the
\* EMA9 of that aligned MACD series, and both are defined numbers
C27_MACDAligned ==
  (analysis.signal # "none" /\ sigInput.length >= 26) =>
    LET aligned == AlignedMACD(AnalysedPrices)
    IN /\ IsNumber(analysis.indicators.macd)
       /\ IsNumber(analysis.indicators.macdSignal)
       /\ analysis.indicators.macd = Latest(aligned.macd)
       /\ analysis.indicators.macdSignal = Latest(aligned.signal)

\* C26: a cancelOrder call for an id no Order record has, or for a record of
\* another user, returns the failure 'Order not found' and leaves every
\* Order record as it was
C26_CancelUnknownOrder ==
  [][\A userId \in Users, orderId \in OrderIds :
       (/\ orderId > Len(orders) \/ orders[orderId].userId # userId
        /\ CancelOrder(userId, orderId)) =>
         /\ cancelResult' = Return(FALSE, ErrNotFound)
         /\ orders' = orders]_vars

\* 'Order not found' was returned while the ledger is full, every record
\* belongs to the same user and none is cancelled
C26_Witness ==
  /\ cancelResult = Return(FALSE, ErrNotFound)
  /\ Len(orders) = MaxOrders
  /\ \A i \in 1..Len(orders) :
       orders[i].userId = "u1" /\ orders[i].status # "CANCELLED"

\* C28: the Order record stored for the primary carries the status of the
\* gateway's answer to the placement whenever that is a status an Order can
\* have
C28_PrimaryStatusFromGateway ==
  [][(mainId = 0 /\ mainId' # 0 /\ mainOrder'.status \in TradeStatus) =>
       orders'[mainId'].status = mainOrder'.status]_vars

\* the step hands a request to the exchange gateway
GatewayCalled == gwCalls' # gwCalls \/ lastOp' # lastOp

\* C29: an Order record becomes CANCELLED only in a step that makes a call
\* to the exchange gateway, never by a purely local update
C29_CancelThroughGateway ==
  [][\A i \in 1..Len(orders) :
       (orders[i].status # "CANCELLED" /\ orders'[i].status = "CANCELLED") =>
         GatewayCalled]_vars

\* the exchange's answer contradicts the stored record: the record is in a
\* terminal status and the exchange reports another status
Disagreement(order, exchangeStatus) ==
  /\ order.status \in Terminal
  /\ exchangeStatus.status \in TradeStatus
  /\ exchangeStatus.status # order.status

\* C30: an updateOrderStatus call whose exchange answer disagrees with the
\* stored record (say CANCELLED locally, FILLED at the exchange) does not
\* overwrite the record
C30_DisagreementKept ==
  [][\A userId \in Users, orderId \in 1..Len(orders) :
       \A outcome \in GatewayOutcomes, exchangeStatus \in ResponsesFor(orderId) :
         (/\ Disagreement(orders[orderId], exchangeStatus)
          /\ UpdateOrderStatus(userId, orderId, outcome, exchangeStatus)) =>
           orders'[orderId] = orders[orderId]]_vars

PricedTypes == {"LIMIT", "STOP_LIMIT", "TAKE_PROFIT_LIMIT"}

\* C32: every Order record of a type that needs a price carries a positive
\* price, and so does every derived record whatever its type
C32_PricedOrders ==
  \A i \in 1..Len(orders) :
    (orders[i].type \in PricedTypes \/ orders[i].config.type # "none") =>
      orders[i].price # Null /\ orders[i].price > 0

\* C33: every nonzero balance of a bare asset code is held in the returned
\* snapshot under the code followed by the default quote currency, BTC as
\* BTC/USDT
C33_SymbolResolved ==
  (pfResult.op = "getPortfolioSummary" /\ ~pfResult.summary.null) =>
    \A e \in Range(ExchangeNames) :
      (pfInput.accounts[e].connected /\ pfInput.accounts[e].outcome = "ok") =>
        \A k \in 1..Len(pfInput.accounts[e].balances) :
          LET balance == pfInput.accounts[e].balances[k]
          IN balance.free > 0 =>
               \E j \in 1..Len(pfResult.summary.positions) :
                 /\ pfResult.summary.positions[j].exchangeName = e
                 /\ pfResult.summary.positions[j].quantity = balance.free
                 /\ pfResult.summary.positions[j].symbol = balance.asset \o "/USDT"

\* the market data record names where its price comes from
Tagged(marketData) ==
  \E field \in DOMAIN marketData :
    field \in {"source", "provenance", "synthetic", "isMock"}

\* C34: a MARKET order stored at a price the market-data collaborator made
\* up because the upstream ticker failed got that price from a record
\* tagged with its provenance
C34_SyntheticPriceTagged ==
  [][\A change \in MockChanges, outcome \in GatewayOutcomes, dbOk \in BOOLEAN :
       (/\ req.type = "MARKET"
        /\ PlaceMainOrder(Null, change, outcome, dbOk)
        /\ mainId' # 0) =>
         LET marketData == GetLatestMarketData(req.symbol, Null, change)[1]
         IN /\ orders'[mainId'].price = marketData.price
            /\ Tagged(marketData)]_vars

\* C35: cancelOrder terminates for every existing order, typed derived
\* orders included: a call that went on to the related orders of its order
\* comes back to return a result
C35_CancelTerminates == (cancelPc = "related") ~> (cancelPc = "idle")

\* C36: cancelOrder on an order sets to CANCELLED only that order and
\* orders of its own placeOrder call: an order a nested call cancels belongs
\* to the placement of the order whose call made the nested call
C36_CancelStaysInGroup ==
  [][\A i \in 1..Len(orders) :
       (/\ cancelPc = "related"
        /\ orders[i].status # "CANCELLED"
        /\ orders'[i].status = "CANCELLED")
       => placement[i] = placement[cancelCur]]_vars

\* C37: a gateway operation on behalf of a user calls the exchange with the
\* access token of that user's own active connection, never with the token
\* of another user's connection
C37_OwnToken ==
  (lastOp.op \in GatewayOps /\ lastOp.apiCalls = 1)
    => /\ lastOp.connection = lastOp.userId
       /\ lastOp.accessToken = tokens[lastOp.userId].accessToken

\* C38: every order the gateway accepted during a placeOrder call has its
\* Order record: a step in which the gateway accepts a placement, of the
\* primary or of a derived leg, stores the record of that order, so that no
\* call returns with an order at the exchange that the ledger does not hold
C38_AcceptedOrdersRecorded ==
  [][\A upstream \in UpstreamPrices \cup {Null}, change \in MockChanges,
        dbOk \in BOOLEAN :
       (\/ PlaceMainOrder(upstream, change, "ok", dbOk)
        \/ PlaceStopLossOrder("ok", dbOk)
        \/ PlaceTakeProfitOrder("ok", dbOk)
        \/ PlaceDCALeg("ok", dbOk))
       => /\ Len(orders') = Len(orders) + 1
          /\ orders'[Len(orders')].exchangeOrderId = ExchangeOrderId]_vars

\* C39: while the market data service is stopped, from the return of stop()
\* to the next start(), nothing is stored and no marketDataUpdate is
\* broadcast, neither by the timer nor by an update cycle already in flight
C39_QuietWhileStopped == feedEvent.kind # "none" => feedEvent.isRunning

\* the sources a price is fetched from
LiveSources == {"kraken"} \cup SecondarySources

====
